---------------------------- MODULE Spec2Model ----------------------------
(***************************************************************************)
(* The ManualControl module of OpenPilot (manualcontrol.c): one iteration  *)
(* of manualControlTask per step, with the arming state machine            *)
(* (processArm), the connection hysteresis, the failsafe override, the     *)
(* flight-mode switch decoding and the dispatch to the downstream          *)
(* command objects.                                                        *)
(*                                                                         *)
(* Representation.  A float in [-1, 1] is the integer number of 1/Unit     *)
(* steps (fixed point).  A raw receiver sample is a uint16_t: a pulse      *)
(* width or one of the driver's error codes.                               *)
(* Time is in milliseconds; sinceArmedDisarmStart is the value of          *)
(* timeDifferenceMs(armedDisarmStart, lastSysTime), saturated at           *)
(* MaxElapsedMs, which lies above every configured duration.               *)
(*                                                                         *)
(* Everything the task reads from other modules in one iteration (the      *)
(* settings object, the system alarms, the receiver samples, the access    *)
(* mode of ManualControlCommand, the telemetry status) is an input of the  *)
(* step; the variables settings and alarms keep the values that the last   *)
(* iteration read.                                                         *)
(***************************************************************************)
EXTENDS Integers, Sequences, FiniteSets, TLC

VARIABLES
    armState,               \* static ArmState_t armState
    flightStatus,           \* the FlightStatus object: Armed, FlightMode
    cmd,                    \* ManualControlCommandData cmd (as last published / read)
    connected_count,        \* uint8_t connected_count
    disconnected_count,     \* uint8_t disconnected_count
    sinceArmedDisarmStart,  \* lastSysTime - armedDisarmStart, in ms
    lastFlightMode,         \* static uint8_t lastFlightMode
    settings,               \* ManualControlSettings as read by the last iteration
    alarms,                 \* SystemAlarms after the last iteration
    accessory,              \* the AccessoryVal of the AccessoryDesired instances
    cmdReadOnly,            \* access mode of the ManualControlCommand object
    cyc,                    \* what the last iteration did (history)
    call,                   \* a function applied on its own (arguments, result),
                            \* or the input that a run holds unchanged
    activity                \* the receiver-activity monitor: activity_fsm, the
                            \* ReceiverActivity object, lastActivityTime, the task's
                            \* copy of FlightStatus.Armed; or NotObserved

vars == <<armState, flightStatus, cmd, connected_count, disconnected_count,
          sinceArmedDisarmStart, lastFlightMode, settings, alarms,
          accessory, cmdReadOnly, cyc, call, activity>>

-----------------------------------------------------------------------------
(* Program constants *)

UPDATE_PERIOD_MS == 20

\* "(++connected_count > 10)", "(++disconnected_count > 10)"
HYSTERESIS_COUNT == 10

\* CONNECTION_OFFSET: safe band around [min, max], in microseconds
CONNECTION_OFFSET == 250

\* MANUALCONTROLSETTINGS_FLIGHTMODEPOSITION_NUMELEM
FLIGHTMODEPOSITION_NUMELEM == 6

\* One unit of the fixed-point representation of a float: 1.0f is Unit
Unit == 1000

\* ARMED_THRESHOLD 0.50f
ARMED_THRESHOLD == Unit \div 2

RCVR_ACTIVITY_MONITOR_CHANNELS_PER_GROUP == 12
RCVR_ACTIVITY_MONITOR_MIN_RANGE == 10

\* the number of channel groups: the value of the option None
MANUALCONTROLSETTINGS_CHANNELGROUPS_NONE == 7

\* "timeDifferenceMs(lastActivityTime, lastSysTime) > 5000"
ACTIVITY_TIMEOUT_MS == 5000

(* Bounds of the exploration *)

\* the durations the explored settings use for the arming sequences (ms)
SequenceTimeMs == 40
\* the non-zero ArmedTimeout the explored settings use (ms)
ArmedTimeoutMs == 60
\* saturation of sinceArmedDisarmStart, above every configured duration
MaxElapsedMs == 120

-----------------------------------------------------------------------------
(* Enumerations *)

ArmStates == {"DISARMED", "ARMING_MANUAL", "ARMED", "DISARMING_MANUAL", "DISARMING_TIMEOUT"}

ArmedValues == {"DISARMED", "ARMING", "ARMED"}

Channels == {"Roll", "Pitch", "Yaw", "Throttle", "FlightMode", "Collective",
             "Accessory0", "Accessory1", "Accessory2"}

\* the error codes of PIOS_RCVR_Read (0, -1 and -2 in pios_rcvr.h), as the
\* uint16_t the task compares with
PIOS_RCVR_TIMEOUT == 0
PIOS_RCVR_INVALID == 65535
PIOS_RCVR_NODRIVER == 65534

RcvrErrors == {PIOS_RCVR_TIMEOUT, PIOS_RCVR_INVALID, PIOS_RCVR_NODRIVER}

\* (int16_t)value of a uint16_t
ToInt16(v) == IF v >= 32768 THEN v - 65536 ELSE v

ArmingOptions == {"AlwaysDisarmed", "AlwaysArmed", "RollLeft", "RollRight",
                  "PitchForward", "PitchAft", "YawLeft", "YawRight",
                  "Accessory0", "Accessory1", "Accessory2"}

AccessoryArming == {"Accessory0", "Accessory1", "Accessory2"}

AlarmNames == {"ManualControl", "Guidance", "GPS", "Telemetry", "Attitude"}

Severity == {"OK", "WARNING", "ERROR", "CRITICAL"}

SeverityRank(s) ==
    CASE s = "OK" -> 1
      [] s = "WARNING" -> 2
      [] s = "ERROR" -> 3
      [] s = "CRITICAL" -> 4

Min(a, b) == IF a < b THEN a ELSE b
Abs(a) == IF a < 0 THEN -a ELSE a

\* C integer division (truncation toward zero)
CDiv(a, b) ==
    IF (a >= 0) = (b > 0) THEN Abs(a) \div Abs(b) ELSE -(Abs(a) \div Abs(b))

-----------------------------------------------------------------------------
(* Pure functions of manualcontrol.c *)

\* the representation of a float that is not a number, outside [-1, 1]
NaN == 3 * Unit

\* a float division whose divisor may be zero: plus or minus infinity, which
\* the "Bound" step cuts to 1.0 or -1.0, or NaN for 0 / 0
FloatDiv(a, b) ==
    IF b # 0 THEN CDiv(a * Unit, b)
    ELSE IF a > 0 THEN 2 * Unit
    ELSE IF a < 0 THEN -(2 * Unit)
    ELSE NaN

\* the "Bound" step of scaleChannel on a value that may be NaN, which no
\* comparison changes
Bound(v) ==
    IF v = NaN THEN v
    ELSE IF v > Unit THEN Unit
    ELSE IF v < -Unit THEN -Unit
    ELSE v

\* variant: scaleChannel without the tests "max != neutral", "min != neutral"
scaleChannel_NoGuard(value, max, min, neutral) ==
    Bound(IF (max > min /\ value >= neutral) \/ (min > max /\ value <= neutral)
          THEN FloatDiv(value - neutral, max - neutral)
          ELSE FloatDiv(value - neutral, neutral - min))

\* variant: scaleChannel that always divides by max - neutral
scaleChannel_OneSided(value, max, min, neutral) ==
    Bound(IF max # neutral THEN FloatDiv(value - neutral, max - neutral) ELSE 0)

\* variant: scaleChannel without its "Bound" step
scaleChannel_Unbounded(value, max, min, neutral) ==
    IF (max > min /\ value >= neutral) \/ (min > max /\ value <= neutral)
    THEN IF max # neutral
         THEN CDiv((value - neutral) * Unit, max - neutral)
         ELSE 0
    ELSE IF min # neutral
         THEN CDiv((value - neutral) * Unit, neutral - min)
         ELSE 0

\* scaleChannel(value, max, min, neutral), the result in 1/Unit steps
scaleChannel(value, max, min, neutral) ==
    LET valueScaled ==
            IF (max > min /\ value >= neutral) \/ (min > max /\ value <= neutral)
            THEN IF max # neutral
                 THEN CDiv((value - neutral) * Unit, max - neutral)
                 ELSE 0
            ELSE IF min # neutral
                 THEN CDiv((value - neutral) * Unit, neutral - min)
                 ELSE 0
    IN  IF valueScaled > Unit THEN Unit
        ELSE IF valueScaled < -Unit THEN -Unit
        ELSE valueScaled

\* validInputRange(min, max, value)
validInputRange(min, max, value) ==
    LET lo == IF min > max THEN max ELSE min
        hi == IF min > max THEN min ELSE max
    IN  value >= lo - CONNECTION_OFFSET /\ value <= hi + CONNECTION_OFFSET

\* applyDeadband(&value, deadband)
applyDeadband(value, deadband) ==
    IF Abs(value) < deadband THEN 0
    ELSE IF value > 0 THEN value - deadband
    ELSE value + deadband

\* forcedDisArm(): the guidance alarm is critical
forcedDisArm(al) == al["Guidance"] = "CRITICAL"

\* Variant of okToArm that does not look at the flight mode.
\* ArmingNeedsPreArmCheck rejects it.
okToArm_AnyFlightMode(al, flightMode) ==
    \A a \in AlarmNames :
        SeverityRank(al[a]) >= SeverityRank("ERROR") => a \in {"GPS", "Telemetry"}

\* okToArm(): no alarm at error or worse except GPS and telemetry, and the
\* flight mode is manual or stabilized
okToArm(al, flightMode) ==
    /\ \A a \in AlarmNames :
          SeverityRank(al[a]) >= SeverityRank("ERROR") => a \in {"GPS", "Telemetry"}
    /\ flightMode \in {"Manual", "Stabilized1", "Stabilized2", "Stabilized3"}

\* variant: a clock that stands still
NextElapsed_Stopped(e) == e

\* timeDifferenceMs(armedDisarmStart, lastSysTime) one period later
NextElapsed(e) == Min(e + UPDATE_PERIOD_MS, MaxElapsedMs)


-----------------------------------------------------------------------------
(* processArm *)

\* variant: the throttle is checked whatever the position of the switch
SwitchLowThrottle_AlwaysChecked(c, s, armSwitch) == c.Throttle < 0

\* bool lowThrottle after the switch on settings->Arming: the throttle is
\* not checked when an accessory switch is in the disarm position
SwitchLowThrottle(c, s, armSwitch) ==
    IF s.Arming \in AccessoryArming /\ armSwitch < 0
    THEN TRUE
    ELSE c.Throttle < 0

\* variant: the throttle is never seen raised
LowThrottle_Always(c, s, armSwitch) == TRUE

\* lowThrottle as the state machine uses it: also low when disconnected
LowThrottle(c, s, armSwitch) ==
    IF c.Connected = FALSE THEN TRUE ELSE SwitchLowThrottle(c, s, armSwitch)

\* float armingInputLevel
armingInputLevel(c, s, armSwitch) ==
    CASE s.Arming = "RollLeft" -> c.Roll
      [] s.Arming = "RollRight" -> -c.Roll
      [] s.Arming = "PitchForward" -> c.Pitch
      [] s.Arming = "PitchAft" -> -c.Pitch
      [] s.Arming = "YawLeft" -> c.Yaw
      [] s.Arming = "YawRight" -> -c.Yaw
      [] s.Arming \in AccessoryArming -> -(armSwitch * Unit)
      [] OTHER -> 0

manualArm(c, s, armSwitch) == armingInputLevel(c, s, armSwitch) <= -ARMED_THRESHOLD

manualDisarm(c, s, armSwitch) ==
    /\ ~manualArm(c, s, armSwitch)
    /\ armingInputLevel(c, s, armSwitch) >= ARMED_THRESHOLD

\* Variant of AbortOnThrottle that aborts nothing: a raised throttle leaves
\* the arming state as it is.  ThrottleAbortsSequence rejects it.
AbortOnThrottle_NoAbort(as) == as

\* "The throttle is not low, in case we where arming or disarming, abort"
AbortOnThrottle(as) ==
    CASE as \in {"DISARMING_MANUAL", "DISARMING_TIMEOUT"} -> "ARMED"
      [] as = "ARMING_MANUAL" -> "DISARMED"
      [] OTHER -> as

\* switch (armState) with the throttle low.  Each case gives the next
\* armState, the value given to setArmedIfChanged ("KEEP": not called) and
\* whether armedDisarmStart = lastSysTime is executed.

\* case ARM_STATE_DISARMED
CaseDisarmed(arm, ok) ==
    [armState |-> IF arm /\ ok THEN "ARMING_MANUAL" ELSE "DISARMED",
     Armed |-> "DISARMED",
     restart |-> arm /\ ok]

\* Variant of CaseArmingManual that arms without waiting for
\* ArmingSequenceTime.  ArmingManualWaits rejects it.
CaseArmingManual_NoWait(arm, elapsed, s) ==
    [armState |-> IF arm THEN "ARMED" ELSE "DISARMED",
     Armed |-> IF arm THEN "ARMED" ELSE "ARMING",
     restart |-> FALSE]

\* case ARM_STATE_ARMING_MANUAL
CaseArmingManual(arm, elapsed, s) ==
    [armState |-> IF arm /\ elapsed > s.ArmingSequenceTime THEN "ARMED"
                  ELSE IF ~arm THEN "DISARMED"
                  ELSE "ARMING_MANUAL",
     Armed |-> "ARMING",
     restart |-> FALSE]

\* case ARM_STATE_ARMED
CaseArmed ==
    [armState |-> "DISARMING_TIMEOUT", Armed |-> "ARMED", restart |-> TRUE]

\* Variant of CaseDisarmingTimeout that disarms at once on the disarm
\* gesture, without DISARMING_MANUAL.  DocumentedTransitions rejects it.
CaseDisarmingTimeout_Direct(disarm, elapsed, s) ==
    [armState |-> IF disarm \/ (s.ArmedTimeout # 0 /\ elapsed > s.ArmedTimeout)
                  THEN "DISARMED"
                  ELSE "DISARMING_TIMEOUT",
     Armed |-> "KEEP",
     restart |-> disarm]

\* Variant of CaseDisarmingTimeout that waits twice ArmedTimeout.
\* TimeoutDisarms rejects it.
CaseDisarmingTimeout_Late(disarm, elapsed, s) ==
    [armState |-> IF disarm THEN "DISARMING_MANUAL"
                  ELSE IF s.ArmedTimeout # 0 /\ elapsed > 2 * s.ArmedTimeout
                       THEN "DISARMED"
                  ELSE "DISARMING_TIMEOUT",
     Armed |-> "KEEP",
     restart |-> disarm]

\* Variant of CaseDisarmingTimeout without the timeout.
\* LostLinkDisarms rejects it.
CaseDisarmingTimeout_NoTimeout(disarm, elapsed, s) ==
    [armState |-> IF disarm THEN "DISARMING_MANUAL" ELSE "DISARMING_TIMEOUT",
     Armed |-> "KEEP",
     restart |-> disarm]

\* case ARM_STATE_DISARMING_TIMEOUT
CaseDisarmingTimeout(disarm, elapsed, s) ==
    [armState |-> IF disarm THEN "DISARMING_MANUAL"
                  ELSE IF s.ArmedTimeout # 0 /\ elapsed > s.ArmedTimeout
                       THEN "DISARMED"
                  ELSE "DISARMING_TIMEOUT",
     Armed |-> "KEEP",
     restart |-> disarm]

\* case ARM_STATE_DISARMING_MANUAL
CaseDisarmingManual(disarm, elapsed, s) ==
    [armState |-> IF disarm /\ elapsed > s.DisarmingSequenceTime THEN "DISARMED"
                  ELSE IF ~disarm THEN "ARMED"
                  ELSE "DISARMING_MANUAL",
     Armed |-> "KEEP",
     restart |-> FALSE]

ArmTable(as, arm, disarm, ok, elapsed, s) ==
    CASE as = "DISARMED" -> CaseDisarmed(arm, ok)
      [] as = "ARMING_MANUAL" -> CaseArmingManual(arm, elapsed, s)
      [] as = "ARMED" -> CaseArmed
      [] as = "DISARMING_TIMEOUT" -> CaseDisarmingTimeout(disarm, elapsed, s)
      [] as = "DISARMING_MANUAL" -> CaseDisarmingManual(disarm, elapsed, s)

\* processArm(cmd, settings, armSwitch): which part of the function ran
\* (step), the next armState, the value for setArmedIfChanged, restart
processArm(c, s, armSwitch, al, fm, as, elapsed) ==
    IF forcedDisArm(al)
    THEN [step |-> "forced", armState |-> as, Armed |-> "DISARMED", restart |-> FALSE]
    ELSE IF s.Arming = "AlwaysDisarmed"
    THEN [step |-> "alwaysDisarmed", armState |-> as, Armed |-> "DISARMED", restart |-> FALSE]
    ELSE IF ~LowThrottle(c, s, armSwitch)
    THEN [step |-> "throttle", armState |-> AbortOnThrottle(as), Armed |-> "KEEP",
          restart |-> FALSE]
    ELSE IF s.Arming = "AlwaysArmed"
    THEN [step |-> "alwaysArmed", armState |-> as, Armed |-> "ARMED", restart |-> FALSE]
    ELSE LET r == ArmTable(as, manualArm(c, s, armSwitch), manualDisarm(c, s, armSwitch),
                           okToArm(al, fm), elapsed, s)
         IN  [step |-> "table", armState |-> r.armState, Armed |-> r.Armed,
              restart |-> r.restart]

\* setArmedIfChanged(val) on the Armed field of FlightStatus
setArmedIfChanged(armed, val) == IF val = "KEEP" THEN armed ELSE val

-----------------------------------------------------------------------------
(* processFlightMode and the dispatch *)

\* (int16_t)(flightMode * 256.0f)
SwitchFixed(flightMode) == CDiv(flightMode * 256, Unit)

\* variant: pos without the test "pos >= settings->FlightModeNumber"
SwitchPosition_NoClamp(flightMode, n) ==
    (((SwitchFixed(flightMode) + 256) * n) \div 512) % 256

\* uint8_t pos of processFlightMode
SwitchPosition(flightMode, n) ==
    LET pos == (((SwitchFixed(flightMode) + 256) * n) \div 512) % 256
    IN  IF pos >= n THEN n - 1 ELSE pos

\* PARSE_FLIGHT_MODE(x) of manualcontrol.h
PARSE_FLIGHT_MODE(x) ==
    CASE x = "Manual" -> "FLIGHTMODE_MANUAL"
      [] x \in {"Stabilized1", "Stabilized2", "Stabilized3"} -> "FLIGHTMODE_STABILIZED"
      [] x = "Autotune" -> "FLIGHTMODE_TUNING"
      [] x \in {"AltitudeHold", "AltitudeVario", "VelocityControl", "PositionHold",
                "ReturnToBase", "Land", "PathPlanner", "POI"} -> "FLIGHTMODE_GUIDANCE"
      [] OTHER -> "FLIGHTMODE_UNDEFINED"

\* Dispatch that tells every guidance generator that the mode changed
Dispatch_AlwaysChanged(fm, last) ==
    IF fm \in {"AltitudeHold", "AltitudeVario"}
    THEN [target |-> "AltitudeHoldDesired", changed |-> TRUE, critical |-> FALSE]
    ELSE IF fm \in {"PositionHold", "POI", "ReturnToBase", "Land"}
    THEN [target |-> "PathDesired", changed |-> TRUE, critical |-> FALSE]
    ELSE [target |-> "nothing", changed |-> FALSE, critical |-> FALSE]

\* the switch at the end of the loop body: the object written, the
\* "changed" argument of the guidance generators, and whether the
\* manual-control alarm is set to critical
Dispatch(fm, last) ==
    LET cat == PARSE_FLIGHT_MODE(fm)
    IN  CASE cat = "FLIGHTMODE_MANUAL" ->
                [target |-> "ActuatorDesired", changed |-> FALSE, critical |-> FALSE]
          [] cat = "FLIGHTMODE_STABILIZED" ->
                [target |-> "StabilizationDesired", changed |-> FALSE, critical |-> FALSE]
          [] cat = "FLIGHTMODE_TUNING" ->
                [target |-> "nothing", changed |-> FALSE, critical |-> FALSE]
          [] cat = "FLIGHTMODE_GUIDANCE" ->
                IF fm \in {"AltitudeHold", "AltitudeVario"}
                THEN [target |-> "AltitudeHoldDesired", changed |-> last # fm,
                      critical |-> FALSE]
                ELSE IF fm \in {"PositionHold", "POI", "ReturnToBase", "Land"}
                THEN [target |-> "PathDesired", changed |-> last # fm, critical |-> FALSE]
                ELSE IF fm = "PathPlanner"
                THEN [target |-> "nothing", changed |-> FALSE, critical |-> FALSE]
                ELSE [target |-> "nothing", changed |-> FALSE, critical |-> TRUE]
          [] OTHER ->
                [target |-> "nothing", changed |-> FALSE, critical |-> TRUE]

-----------------------------------------------------------------------------
(* One iteration of the loop of manualControlTask *)

\* cmd.Channel[n]: PIOS_RCVR_INVALID for an unmapped channel, else what
\* PIOS_RCVR_Read returns
ReadChannels(s, rx) ==
    [n \in Channels |-> IF s.ChannelGroups[n] = "None" THEN PIOS_RCVR_INVALID ELSE rx[n]]

\* scaledChannel[n].  A channel that timed out keeps its old value, which
\* no path reads: the input is then not valid.
ScaleChannels(s, chan) ==
    [n \in Channels |->
        IF chan[n] = PIOS_RCVR_TIMEOUT THEN 0
        ELSE scaleChannel(ToInt16(chan[n]), s.ChannelMax[n], s.ChannelMin[n],
                          s.ChannelNeutral[n])]

\* variant: a timed-out stick channel is a configuration error too
ConfigurationError_TimeoutToo(s, chan) ==
    \/ \E n \in {"Roll", "Pitch", "Yaw", "Throttle"} :
          \/ s.ChannelGroups[n] = "None"
          \/ chan[n] \in {PIOS_RCVR_INVALID, PIOS_RCVR_NODRIVER, PIOS_RCVR_TIMEOUT}
    \/ s.FlightModeNumber < 1
    \/ s.FlightModeNumber > FLIGHTMODEPOSITION_NUMELEM
    \/ /\ s.FlightModeNumber > 1
       /\ \/ s.ChannelGroups["FlightMode"] = "None"
          \/ chan["FlightMode"] = PIOS_RCVR_INVALID
          \/ chan["FlightMode"] = PIOS_RCVR_NODRIVER

\* "Check settings, if error raise alarm"
ConfigurationError(s, chan) ==
    \/ \E n \in {"Roll", "Pitch", "Yaw", "Throttle"} :
          \/ s.ChannelGroups[n] = "None"
          \/ chan[n] = PIOS_RCVR_INVALID
          \/ chan[n] = PIOS_RCVR_NODRIVER
    \/ s.FlightModeNumber < 1
    \/ s.FlightModeNumber > FLIGHTMODEPOSITION_NUMELEM
    \/ /\ s.FlightModeNumber > 1
       /\ \/ s.ChannelGroups["FlightMode"] = "None"
          \/ chan["FlightMode"] = PIOS_RCVR_INVALID
          \/ chan["FlightMode"] = PIOS_RCVR_NODRIVER

\* bool valid_input_detected
ValidInput(s, chan) ==
    /\ \A n \in Channels : chan[n] # PIOS_RCVR_TIMEOUT
    /\ \A n \in {"Throttle", "Roll", "Yaw", "Pitch"} :
          validInputRange(s.ChannelMin[n], s.ChannelMax[n], chan[n])

\* "Implement hysteresis loop on connection status"
Hysteresis(valid, connected, cc, dc) ==
    IF valid
    THEN IF (cc + 1) % 256 > HYSTERESIS_COUNT
         THEN [Connected |-> TRUE, cc |-> 0, dc |-> 0]
         ELSE [Connected |-> connected, cc |-> (cc + 1) % 256, dc |-> dc]
    ELSE IF (dc + 1) % 256 > HYSTERESIS_COUNT
         THEN [Connected |-> FALSE, cc |-> 0, dc |-> 0]
         ELSE [Connected |-> connected, cc |-> cc, dc |-> (dc + 1) % 256]

\* Variant of FailsafeCommand that leaves the roll command as it was.
\* DisconnectedCommandIsFailsafe rejects it.
FailsafeCommand_KeepRoll(c, s) ==
    [c EXCEPT !.Throttle = -Unit, !.Yaw = 0, !.Pitch = 0, !.Collective = 0,
              !.FlightModeSwitchPosition =
                  IF s.FailsafeBehavior # 0 THEN s.FailsafeBehavior - 1 ELSE @]

\* the commands of a disconnected receiver: "Shut down engine with no control"
FailsafeCommand(c, s) ==
    [c EXCEPT !.Throttle = -Unit, !.Roll = 0, !.Yaw = 0, !.Pitch = 0, !.Collective = 0,
              !.FlightModeSwitchPosition =
                  IF s.FailsafeBehavior # 0 THEN s.FailsafeBehavior - 1 ELSE @]

\* Variant of FailsafeFlightMode that never forces a flight mode.
\* FailsafeForcesFlightMode rejects it.
FailsafeFlightMode_Keep(fm, s) == fm

\* the flight mode a disconnected receiver forces
FailsafeFlightMode(fm, s) ==
    IF s.FailsafeBehavior # 0 THEN s.FlightModePosition[s.FailsafeBehavior] ELSE fm

\* Roll, Pitch, Yaw after the deadband
Stick(v, s) == IF s.Deadband > 0 THEN applyDeadband(v, s.Deadband) ELSE v

\* variant: the sticks pass a low-pass filter (as with USE_INPUT_LPF)
ScaledCommand_Filtered(c, s, chan, scaled) ==
    [c EXCEPT !.Roll = CDiv(@ + Stick(scaled["Roll"], s), 2),
              !.Pitch = CDiv(@ + Stick(scaled["Pitch"], s), 2),
              !.Yaw = CDiv(@ + Stick(scaled["Yaw"], s), 2),
              !.Throttle = scaled["Throttle"],
              !.Collective = IF chan["Collective"] \in RcvrErrors THEN @
                             ELSE scaled["Collective"],
              !.FlightModeSwitchPosition =
                  SwitchPosition(scaled["FlightMode"], s.FlightModeNumber)]

\* the commands of a connected receiver with valid input
ScaledCommand(c, s, chan, scaled) ==
    [c EXCEPT !.Roll = Stick(scaled["Roll"], s),
              !.Pitch = Stick(scaled["Pitch"], s),
              !.Yaw = Stick(scaled["Yaw"], s),
              !.Throttle = scaled["Throttle"],
              !.Collective = IF chan["Collective"] \in RcvrErrors THEN @
                             ELSE scaled["Collective"],
              !.FlightModeSwitchPosition =
                  SwitchPosition(scaled["FlightMode"], s.FlightModeNumber)]

\* uint8_t newMode of processFlightMode
DecodedFlightMode(s, scaled) ==
    s.FlightModePosition[SwitchPosition(scaled["FlightMode"], s.FlightModeNumber) + 1]

\* int8_t armSwitch: the position of the accessory channel that arms
ArmSwitch(s, scaled) ==
    IF s.Arming \in AccessoryArming /\ s.ChannelGroups[s.Arming] # "None"
    THEN IF scaled[s.Arming] > ARMED_THRESHOLD THEN 1
         ELSE IF scaled[s.Arming] < -ARMED_THRESHOLD THEN -1
         ELSE 0
    ELSE 0

\* Accessories that writes the accessory values of an invalid sample too
Accessories_Unfiltered(acc, s, connected, valid, scaled) ==
    [a \in AccessoryArming |->
        IF s.ChannelGroups[a] = "None" THEN acc[a]
        ELSE IF ~connected THEN 0
        ELSE scaled[a]]

\* the AccessoryDesired instances after the iteration
Accessories(acc, s, connected, valid, scaled) ==
    [a \in AccessoryArming |->
        IF s.ChannelGroups[a] = "None" THEN acc[a]
        ELSE IF ~connected THEN 0
        ELSE IF valid THEN scaled[a]
        ELSE acc[a]]

\* history: the channels whose read gave PIOS_RCVR_TIMEOUT
TimedOut(chan) == {n \in Channels : chan[n] = PIOS_RCVR_TIMEOUT}

\* history: the channels whose read gave PIOS_RCVR_INVALID or PIOS_RCVR_NODRIVER
Unbound(chan) ==
    {n \in Channels : chan[n] \in {PIOS_RCVR_INVALID, PIOS_RCVR_NODRIVER}}

-----------------------------------------------------------------------------
(* The receiver-activity monitor *)

\* A specification that does not follow the monitor keeps this value: the
\* monitor writes only its own state and the ReceiverActivity object, and
\* nothing else in the task reads them.
NotObserved == [observed |-> FALSE]

\* the channel groups in the order of the switch of
\* updateRcvrActivityCompare; a group is its index in this sequence less 1
GroupNames == <<"PWM", "PPM", "DSMMainPort", "DSMFlexiPort", "SBus", "GCS", "OPLink">>

GroupChannels == 1 .. RCVR_ACTIVITY_MONITOR_CHANNELS_PER_GROUP

\* resetRcvrActivity(fsm) on the monitor a
resetRcvrActivity(a) ==
    [a EXCEPT
        !.data = IF @.ActiveGroup # "None" /\ @.ActiveChannel # 255
                 THEN [ActiveGroup |-> "None", ActiveChannel |-> 255]
                 ELSE @,
        !.fsm = [@ EXCEPT !.group = 0, !.sample_count = 0]]

\* updateRcvrActivitySample: the samples of every channel of group g
updateRcvrActivitySample(read, g) == [ch \in GroupChannels |-> read[g][ch]]

\* uint16_t delta of updateRcvrActivityCompare
Delta(curr, prev) == IF curr > prev THEN curr - prev ELSE prev - curr

\* the channels that updateRcvrActivityCompare marks as active
ActiveChannels(fsm, read) ==
    {ch \in GroupChannels :
        Delta(read[fsm.group][ch], fsm.prev[ch]) > RCVR_ACTIVITY_MONITOR_MIN_RANGE}

\* the greatest element of a non-empty set of numbers
Greatest(S) == CHOOSE x \in S : \A y \in S : y <= x

\* variant: a difference of exactly the minimum range counts as activity
updateRcvrActivityCompare_Inclusive(a, read) ==
    LET act == {ch \in GroupChannels :
                   Delta(read[a.fsm.group][ch], a.fsm.prev[ch])
                       >= RCVR_ACTIVITY_MONITOR_MIN_RANGE}
    IN  [data |-> IF act = {} THEN a.data
                  ELSE [ActiveGroup |-> GroupNames[a.fsm.group + 1],
                        ActiveChannel |-> Greatest(act)],
         activity_updated |-> act # {}]

\* updateRcvrActivityCompare: the ReceiverActivity object afterwards (the
\* last active channel of the loop stays) and the value returned
updateRcvrActivityCompare(a, read) ==
    LET act == ActiveChannels(a.fsm, read)
    IN  [data |-> IF act = {} THEN a.data
                  ELSE [ActiveGroup |-> GroupNames[a.fsm.group + 1],
                        ActiveChannel |-> Greatest(act)],
         activity_updated |-> act # {}]

\* variant: the loop after group_completed moves one group on and stops
NextGroup_Successor(g, map) == (g + 1) % MANUALCONTROLSETTINGS_CHANNELGROUPS_NONE

\* the for loop after group_completed, pass by pass: i passes are done and
\* the monitor is at group g; the result is the group the loop leaves the
\* monitor at, whether it is bound, and the number of passes made
RECURSIVE FindNextGroup(_, _, _)
FindNextGroup(g, map, i) ==
    IF i >= MANUALCONTROLSETTINGS_CHANNELGROUPS_NONE
    THEN [group |-> g, found |-> FALSE, passes |-> i]
    ELSE LET next == IF g + 1 >= MANUALCONTROLSETTINGS_CHANNELGROUPS_NONE THEN 0 ELSE g + 1
         IN  IF next \in map
             THEN [group |-> next, found |-> TRUE, passes |-> i + 1]
             ELSE FindNextGroup(next, map, i + 1)

\* the group that the loop after group_completed stops at: the first bound
\* group after g, wrapping, or g itself after a full round
NextGroup(g, map) ==
    LET round == [i \in 1 .. MANUALCONTROLSETTINGS_CHANNELGROUPS_NONE |->
                     (g + i) % MANUALCONTROLSETTINGS_CHANNELGROUPS_NONE]
        bound == {i \in DOMAIN round : round[i] \in map}
    IN  IF bound = {} THEN g
        ELSE round[CHOOSE i \in bound : \A j \in bound : i <= j]

\* variant: the next group is sampled one iteration later
GroupCompleted_Idle(a, read, updated) ==
    [monitor |->
        [a EXCEPT !.fsm = [@ EXCEPT !.group = NextGroup(a.fsm.group, a.map),
                                    !.sample_count = 0]],
     activity_updated |-> updated]

\* the part of updateRcvrActivity after the label group_completed
GroupCompleted(a, read, updated) ==
    LET g == NextGroup(a.fsm.group, a.map)
    IN  [monitor |->
            [a EXCEPT !.fsm =
                IF g \in a.map
                THEN [group |-> g, prev |-> updateRcvrActivitySample(read, g),
                      sample_count |-> 1]
                ELSE [@ EXCEPT !.group = g, !.sample_count = 0]],
         activity_updated |-> updated]

\* updateRcvrActivity(fsm): the monitor afterwards and the value returned
updateRcvrActivity(a0, read) ==
    LET a == IF a0.fsm.group >= MANUALCONTROLSETTINGS_CHANNELGROUPS_NONE
             THEN resetRcvrActivity(a0) ELSE a0
    IN  IF a.fsm.group \notin a.map
        THEN GroupCompleted(a, read, FALSE)
        ELSE IF a.fsm.sample_count = 0
        THEN [monitor |->
                 [a EXCEPT !.fsm = [@ EXCEPT
                     !.prev = updateRcvrActivitySample(read, a.fsm.group),
                     !.sample_count = 1]],
              activity_updated |-> FALSE]
        ELSE LET c == updateRcvrActivityCompare(a, read)
             IN  GroupCompleted([a EXCEPT !.data = c.data], read, c.activity_updated)

\* "Update channel activity monitor" at the head of the loop, with
\* a.since = timeDifferenceMs(lastActivityTime, lastSysTime) of the
\* iteration before.  The history a.hist keeps what the iteration saw and
\* what updateRcvrActivity left before a reset.
MonitorHead(a, read) ==
    LET ran == a.localArmed = "DISARMED"
        u == IF ran THEN updateRcvrActivity(a, read)
             ELSE [monitor |-> a, activity_updated |-> FALSE]
        since == IF u.activity_updated THEN 0 ELSE a.since + UPDATE_PERIOD_MS
        expired == since > ACTIVITY_TIMEOUT_MS
        m == IF expired THEN resetRcvrActivity(u.monitor) ELSE u.monitor
    IN  [m EXCEPT
            !.since = IF expired THEN 0 ELSE since,
            !.hist = [ran |-> ran, fsmBefore |-> a.fsm, read |-> read,
                      updated |-> u.activity_updated, fsmUpdated |-> u.monitor.fsm,
                      dataUpdated |-> u.monitor.data,
                      sinceChecked |-> since, reset |-> expired]]

\* Monitor with a copy of FlightStatus that is never read again
Monitor_NeverRefreshed(a, in, path, armed) ==
    IF ~a.observed THEN a ELSE MonitorHead(a, in.act)

\* The monitor over one iteration that ends with FlightStatus.Armed =
\* armed: the task's copy of FlightStatus is read again at the dispatch,
\* which the "continue" of an inconsistent configuration skips.
Monitor(a, in, path, armed) ==
    IF ~a.observed THEN a
    ELSE [MonitorHead(a, in.act) EXCEPT
             !.localArmed = IF path = "cfgerr" THEN @ ELSE armed]

\* the monitor after the initialisation of the task, with the groups of
\* map bound to a driver
InitMonitor(map) ==
    [observed |-> TRUE,
     map |-> map,
     fsm |-> [group |-> 0, prev |-> [ch \in GroupChannels |-> 0], sample_count |-> 0],
     data |-> [ActiveGroup |-> "None", ActiveChannel |-> 255],
     since |-> 0,
     localArmed |-> "DISARMED",
     hist |-> [ran |-> FALSE, fsmBefore |-> [group |-> 0,
                                            prev |-> [ch \in GroupChannels |-> 0],
                                            sample_count |-> 0],
               read |-> <<>>, updated |-> FALSE,
               fsmUpdated |-> [group |-> 0, prev |-> [ch \in GroupChannels |-> 0],
                               sample_count |-> 0],
               dataUpdated |-> [ActiveGroup |-> "None", ActiveChannel |-> 255],
               sinceChecked |-> 0, reset |-> FALSE]]

-----------------------------------------------------------------------------
(* The paths through the loop body *)

\* The state of the task and of the objects it writes, as one record
State ==
    [armState |-> armState, flightStatus |-> flightStatus, cmd |-> cmd,
     connected_count |-> connected_count, disconnected_count |-> disconnected_count,
     sinceArmedDisarmStart |-> sinceArmedDisarmStart, lastFlightMode |-> lastFlightMode,
     settings |-> settings, alarms |-> alarms, accessory |-> accessory,
     cmdReadOnly |-> cmdReadOnly, cyc |-> cyc]

\* The iteration under ground-station control: the command object is read,
\* not written, and only the dispatch runs
GcsIteration(st, in, al0, elapsed, unbound, timedout) ==
    LET d == Dispatch(st.flightStatus.FlightMode, st.lastFlightMode)
    IN  [st EXCEPT
            !.cmd = in.gcsCmd,
            !.alarms = [al0 EXCEPT !["ManualControl"] = IF d.critical THEN "CRITICAL" ELSE @],
            !.lastFlightMode = st.flightStatus.FlightMode,
            !.cyc = [path |-> "gcs", step |-> "none", valid |-> FALSE, armSwitch |-> 0,
                     published |-> FALSE, target |-> d.target, changed |-> d.changed,
                     dispatchMode |-> st.flightStatus.FlightMode,
                     armStateBefore |-> st.armState,
                     armedBefore |-> st.flightStatus.Armed,
                     flightModeBefore |-> st.flightStatus.FlightMode,
                     connectedBefore |-> st.cmd.Connected,
                     ccBefore |-> st.connected_count,
                     dcBefore |-> st.disconnected_count,
                     modeSet |-> FALSE, wdg |-> st.cyc.wdg,
                     unbound |-> unbound, timedout |-> timedout, elapsed |-> elapsed]]

\* Variant of ConfigurationErrorIteration without the call of
\* setArmedIfChanged.  ConfigurationErrorStops rejects it.
ConfigurationErrorIteration_StaysArmed(st, al0, elapsed, unbound, timedout) ==
    [st EXCEPT
        !.alarms = [al0 EXCEPT !["ManualControl"] = "CRITICAL"],
        !.cmd = [@ EXCEPT !.Connected = FALSE],
        !.cyc = [@ EXCEPT !.path = "cfgerr", !.step = "none", !.valid = FALSE,
                          !.armSwitch = 0, !.published = TRUE, !.target = "none",
                          !.changed = FALSE, !.dispatchMode = "none",
                          !.armStateBefore = st.armState,
                          !.armedBefore = st.flightStatus.Armed,
                          !.flightModeBefore = st.flightStatus.FlightMode,
                          !.connectedBefore = st.cmd.Connected,
                          !.ccBefore = st.connected_count,
                          !.dcBefore = st.disconnected_count,
                          !.modeSet = FALSE,
                          !.unbound = unbound, !.timedout = timedout, !.elapsed = elapsed]]

\* The iteration that finds the configuration inconsistent: the alarm,
\* Connected = false, disarm, "continue"
ConfigurationErrorIteration(st, al0, elapsed, unbound, timedout) ==
    [st EXCEPT
        !.alarms = [al0 EXCEPT !["ManualControl"] = "CRITICAL"],
        !.cmd = [@ EXCEPT !.Connected = FALSE],
        !.flightStatus = [@ EXCEPT !.Armed = setArmedIfChanged(@, "DISARMED")],
        !.cyc = [path |-> "cfgerr", step |-> "none", valid |-> FALSE, armSwitch |-> 0,
                 published |-> TRUE, target |-> "none", changed |-> FALSE,
                 dispatchMode |-> "none", armStateBefore |-> st.armState,
                 armedBefore |-> st.flightStatus.Armed,
                 flightModeBefore |-> st.flightStatus.FlightMode,
                 connectedBefore |-> st.cmd.Connected,
                 ccBefore |-> st.connected_count,
                 dcBefore |-> st.disconnected_count,
                 modeSet |-> FALSE, wdg |-> st.cyc.wdg,
                 unbound |-> unbound, timedout |-> timedout, elapsed |-> elapsed]]

\* The iteration that processes the receiver input, in four stages; each
\* stage computes its values once and hands them to the next.

\* the value of a one-element set
The(S) == CHOOSE x \in S : TRUE

\* history: FlightStatusSet was called for the flight mode, by the failsafe
\* branch (always when a failsafe mode is configured) or by
\* processFlightMode (when the decoded mode differs from the one held)
ModePublished(st, s, h, valid, fm1) ==
    IF ~h.Connected THEN s.FailsafeBehavior # 0
    ELSE IF valid THEN st.flightStatus.FlightMode # fm1
    ELSE FALSE

\* processArm, the publication of the command and the dispatch
ArmAndDispatch(st, s, scaled, valid, h, cmd1, fm1, al1, armSwitch, pa, d, elapsed, unbound, timedout) ==
    [st EXCEPT
        !.connected_count = h.cc,
        !.disconnected_count = h.dc,
        !.cmd = cmd1,
        !.accessory = Accessories(@, s, h.Connected, valid, scaled),
        !.armState = pa.armState,
        !.flightStatus = [Armed |-> setArmedIfChanged(@.Armed, pa.Armed),
                          FlightMode |-> fm1],
        !.sinceArmedDisarmStart = IF pa.restart THEN 0 ELSE @,
        !.alarms = [al1 EXCEPT !["ManualControl"] = IF d.critical THEN "CRITICAL" ELSE @],
        !.lastFlightMode = fm1,
        !.cyc = [path |-> "rcvr", step |-> pa.step, valid |-> valid,
                 armSwitch |-> armSwitch, published |-> TRUE, target |-> d.target,
                 changed |-> d.changed, dispatchMode |-> fm1,
                 armStateBefore |-> st.armState,
                 armedBefore |-> st.flightStatus.Armed,
                 flightModeBefore |-> st.flightStatus.FlightMode,
                 connectedBefore |-> st.cmd.Connected,
                 ccBefore |-> st.connected_count,
                 dcBefore |-> st.disconnected_count,
                 modeSet |-> ModePublished(st, s, h, valid, fm1), wdg |-> st.cyc.wdg,
                 unbound |-> unbound, timedout |-> timedout, elapsed |-> elapsed]]

\* the commands, the flight mode, the alarm and the arming switch of a
\* disconnected receiver, of valid input, and of invalid input before the
\* receiver counts as disconnected
CommandsAndFlightMode(st, s, chan, scaled, valid, h, al0, elapsed, unbound, timedout) ==
    The({The({ArmAndDispatch(st, s, scaled, valid, h, cmd1, fm1, al1, armSwitch,
                             pa, d, elapsed, unbound, timedout) :
                 pa \in {processArm(cmd1, s, armSwitch, al1, fm1, st.armState, elapsed)},
                 d \in {Dispatch(fm1, st.lastFlightMode)}}) :
            cmd1 \in {IF ~h.Connected
                      THEN FailsafeCommand([st.cmd EXCEPT !.Connected = FALSE], s)
                      ELSE IF valid
                      THEN ScaledCommand([st.cmd EXCEPT !.Connected = TRUE], s, chan, scaled)
                      ELSE [st.cmd EXCEPT !.Connected = TRUE]},
            fm1 \in {IF ~h.Connected THEN FailsafeFlightMode(st.flightStatus.FlightMode, s)
                     ELSE IF valid THEN DecodedFlightMode(s, scaled)
                     ELSE st.flightStatus.FlightMode},
            al1 \in {[al0 EXCEPT !["ManualControl"] =
                         IF ~h.Connected THEN "WARNING" ELSE IF valid THEN "OK" ELSE @]},
            armSwitch \in {IF h.Connected /\ valid THEN ArmSwitch(s, scaled) ELSE 0}})

\* the scaled channels, the validity of the input and the hysteresis
ReceiverIteration(st, s, chan, al0, elapsed, unbound, timedout) ==
    The({The({CommandsAndFlightMode(st, s, chan, scaled, valid, h, al0, elapsed, unbound, timedout) :
                 h \in {Hysteresis(valid, st.cmd.Connected, st.connected_count,
                                   st.disconnected_count)}}) :
            scaled \in {ScaleChannels(s, chan)},
            valid \in {ValidInput(s, chan)}})

\* variant: the loop does not refresh the watchdog
PIOS_WDG_UpdateFlag_Skip(n) == n

\* PIOS_WDG_UpdateFlag(PIOS_WDG_MANUAL) at the head of the loop, on the
\* number n of refreshes of the iteration (history; cyc.wdg)
PIOS_WDG_UpdateFlag(n) == n + 1

\* The loop body as a function of the state and of the input in: settings
\* (ManualControlSettingsGet), rx (PIOS_RCVR_Read per channel), env (the
\* alarms of the other modules), readOnly (ManualControlCommandReadOnly),
\* telemetry (the telemetry link is connected), gcsCmd (the
\* ManualControlCommand object as the ground station wrote it).
IterationOn(st0, in, s, al0, chan, elapsed) ==
    IF in.readOnly /\ in.telemetry THEN GcsIteration(st0, in, al0, elapsed, {}, {})
    ELSE IF ConfigurationError(s, chan)
    THEN ConfigurationErrorIteration(st0, al0, elapsed, Unbound(chan), TimedOut(chan))
    ELSE ReceiverIteration(st0, s, chan, al0, elapsed, Unbound(chan), TimedOut(chan))

Iteration(st, in) ==
    The({The({IterationOn([st EXCEPT !.settings = s,
                                     !.cmdReadOnly = in.readOnly /\ in.telemetry,
                                     !.sinceArmedDisarmStart = elapsed,
                                     !.cyc = [@ EXCEPT !.wdg = PIOS_WDG_UpdateFlag(0)]],
                          in, s, al0, chan, elapsed) :
                 chan \in {ReadChannels(s, in.rx)}}) :
            s \in {in.settings},
            elapsed \in {NextElapsed(st.sinceArmedDisarmStart)},
            al0 \in {[a \in AlarmNames |->
                         IF a = "ManualControl" THEN st.alarms[a] ELSE in.env[a]]}})

\* One iteration of the loop of manualControlTask on the input in
manualControlTask(in) ==
    \E st \in {State}, i \in {in} : \E n \in {Iteration(st, i)} :
        /\ armState' = n.armState
        /\ flightStatus' = n.flightStatus
        /\ cmd' = n.cmd
        /\ connected_count' = n.connected_count
        /\ disconnected_count' = n.disconnected_count
        /\ sinceArmedDisarmStart' = n.sinceArmedDisarmStart
        /\ lastFlightMode' = n.lastFlightMode
        /\ settings' = n.settings
        /\ alarms' = n.alarms
        /\ accessory' = n.accessory
        /\ cmdReadOnly' = n.cmdReadOnly
        /\ cyc' = n.cyc
        /\ activity' = Monitor(activity, i, n.cyc.path, n.flightStatus.Armed)
        /\ UNCHANGED call

-----------------------------------------------------------------------------
(* The explored configurations and inputs *)

\* calibration of every channel: min, neutral and max pulse width
PulseMin == 1000
PulseNeutral == 1500
PulseMax == 2000

\* the channel mapping of the explored settings: the sticks, the
\* flight-mode switch and one accessory channel on the PWM receiver
MappedChannels == {"Roll", "Pitch", "Yaw", "Throttle", "FlightMode", "Accessory0"}

BaseSettings ==
    [Arming |-> "RollLeft",
     ArmedTimeout |-> ArmedTimeoutMs,
     ArmingSequenceTime |-> SequenceTimeMs,
     DisarmingSequenceTime |-> SequenceTimeMs,
     FlightModeNumber |-> 3,
     FlightModePosition |-> <<"Manual", "Stabilized1", "PositionHold",
                              "Manual", "Manual", "Manual">>,
     FailsafeBehavior |-> 0,
     Deadband |-> 0,
     ChannelGroups |-> [n \in Channels |-> IF n \in MappedChannels THEN "PWM" ELSE "None"],
     ChannelMin |-> [n \in Channels |-> PulseMin],
     ChannelNeutral |-> [n \in Channels |-> PulseNeutral],
     ChannelMax |-> [n \in Channels |-> PulseMax]]

\* a frame of receiver samples
Frame(roll, pitch, yaw, throttle, mode, acc0) ==
    [n \in Channels |->
        CASE n = "Roll" -> roll
          [] n = "Pitch" -> pitch
          [] n = "Yaw" -> yaw
          [] n = "Throttle" -> throttle
          [] n = "FlightMode" -> mode
          [] n = "Accessory0" -> acc0
          [] OTHER -> PIOS_RCVR_NODRIVER]

\* the alarms of the other modules
Alarms(guidance, gps, telemetry, attitude) ==
    [a \in AlarmNames \ {"ManualControl"} |->
        CASE a = "Guidance" -> guidance
          [] a = "GPS" -> gps
          [] a = "Telemetry" -> telemetry
          [] a = "Attitude" -> attitude]

NoAlarms == Alarms("OK", "OK", "OK", "OK")

\* a command record
Command(connected, roll, pitch, yaw, throttle) ==
    [Connected |-> connected, Roll |-> roll, Pitch |-> pitch, Yaw |-> yaw,
     Throttle |-> throttle, Collective |-> 0, FlightModeSwitchPosition |-> 0]

\* the state after the initialisation of manualControlTask, for a settings
\* object s0
InitTask(s0) ==
    /\ armState = "DISARMED"
    /\ flightStatus = [Armed |-> "DISARMED", FlightMode |-> "Manual"]
    /\ cmd = Command(FALSE, 0, 0, 0, 0)
    /\ connected_count = 0
    /\ disconnected_count = 0
    /\ sinceArmedDisarmStart = 0
    /\ lastFlightMode = "Manual"
    /\ settings = s0
    /\ alarms = [a \in AlarmNames |-> "OK"]
    /\ accessory = [a \in AccessoryArming |-> 0]
    /\ cmdReadOnly = FALSE
    /\ cyc = [path |-> "none", step |-> "none", valid |-> FALSE, armSwitch |-> 0,
              published |-> FALSE, target |-> "none", changed |-> FALSE,
              dispatchMode |-> "none", armStateBefore |-> "DISARMED",
              armedBefore |-> "DISARMED", flightModeBefore |-> "Manual",
              connectedBefore |-> FALSE, ccBefore |-> 0, dcBefore |-> 0,
              modeSet |-> FALSE, wdg |-> 0,
              unbound |-> {}, timedout |-> {}, elapsed |-> 0]

\* the same, with no function applied on its own and the receiver-activity
\* monitor not followed
InitWith(s0) == InitTask(s0) /\ call = [fn |-> "none"] /\ activity = NotObserved

-----------------------------------------------------------------------------
(* Specification Spec: the arming state machine under a receiver whose     *)
(* samples are in range.  The arming method is one of a stick gesture, an  *)
(* accessory switch and the two unconditional methods; the guidance alarm  *)
(* comes and goes; the ground station may take the command object over.    *)

ArmingExplored == {"RollLeft", "YawRight", "Accessory0", "AlwaysArmed", "AlwaysDisarmed"}

\* the stick and switch positions of a frame: low, centre, high
Positions == {PulseMin, PulseNeutral, PulseMax}

\* the throttle positions of a frame: low and centre (throttle = 0)
ThrottlePositions == {PulseMin, PulseNeutral}

\* the frames that exercise the arming method of s: the channel of the
\* gesture moves, the other sticks stay centred
GestureFrames(s) ==
    {Frame(IF s.Arming = "RollLeft" THEN g ELSE PulseNeutral,
           PulseNeutral,
           IF s.Arming = "YawRight" THEN g ELSE PulseNeutral,
           th,
           PulseMin,
           IF s.Arming = "Accessory0" THEN g ELSE PulseNeutral) :
        g \in IF s.Arming \in {"AlwaysArmed", "AlwaysDisarmed"}
              THEN {PulseNeutral} ELSE Positions,
        th \in ThrottlePositions}

GuidanceAlarms == {NoAlarms, Alarms("CRITICAL", "OK", "OK", "OK")}

\* what the ground station writes into ManualControlCommand
GcsCommands == {Command(TRUE, 0, 0, 0, -Unit)}

Input(s, rx, env, readOnly, telemetry, gcsCmd) ==
    [settings |-> s, rx |-> rx, env |-> env, readOnly |-> readOnly,
     telemetry |-> telemetry, gcsCmd |-> gcsCmd]

\* an iteration that reads the receiver
ReceiverInput ==
    \E rx \in GestureFrames(settings), env \in GuidanceAlarms :
        manualControlTask(Input(settings, rx, env, FALSE, TRUE, cmd))

\* an iteration under ground-station control
GcsInput ==
    \E env \in GuidanceAlarms, gc \in GcsCommands :
        manualControlTask(Input(settings, Frame(PulseNeutral, PulseNeutral, PulseNeutral,
                                                PulseMin, PulseMin, PulseNeutral),
                                env, TRUE, TRUE, gc))

Init == \E a \in ArmingExplored : InitWith([BaseSettings EXCEPT !.Arming = a])

Next == ReceiverInput \/ GcsInput

Spec == Init /\ [][Next]_vars

-----------------------------------------------------------------------------
(* Properties of the arming state machine, checked under Spec.  They are   *)
(* stated on the state at the end of an iteration; cyc holds what the      *)
(* iteration saw when it started.                                           *)

\* the iteration that led to this state ran the throttle check of
\* processArm: the receiver was read, the configuration was consistent, no
\* forced disarm, the arming method is not AlwaysDisarmed
ThrottleChecked ==
    /\ cyc.path = "rcvr"
    /\ alarms["Guidance"] # "CRITICAL"
    /\ settings.Arming # "AlwaysDisarmed"

\* ... and the throttle was low: the switch on armState ran
TableRan ==
    /\ ThrottleChecked
    /\ settings.Arming # "AlwaysArmed"
    /\ LowThrottle(cmd, settings, cyc.armSwitch)

\* C1: at the end of every iteration in which the guidance alarm is
\* Critical, the published FlightStatus.Armed is Disarmed.
\* Violated: an iteration under ground-station control does not call
\* processArm, so an armed vehicle stays Armed.
ForcedDisarmAlwaysWins ==
    (cyc.path # "none" /\ alarms["Guidance"] = "CRITICAL")
        => flightStatus.Armed = "DISARMED"

\* C2: the published FlightStatus.Armed becomes Armed only under the
\* always-armed method or from Arming, at the end of an arming sequence;
\* it never goes from Disarmed straight to Armed.
\* Violated: a forced disarm publishes Disarmed and leaves armState at
\* ARMED or DISARMING_TIMEOUT; once the alarm clears, the case
\* ARM_STATE_ARMED publishes Armed again.
ArmedOnlyBySequence ==
    (flightStatus.Armed = "ARMED" /\ cyc.armedBefore # "ARMED")
        => (settings.Arming = "AlwaysArmed" \/ cyc.armedBefore = "ARMING")

\* the transitions of armState that do not depend on how
\* DISARMING_MANUAL returns to ARMED
TransitionOtherThanReturn(from, to) ==
    \/ from = to
    \/ to = "DISARMED" /\ alarms["Guidance"] = "CRITICAL"
    \/ from = "DISARMED" /\ to = "ARMING_MANUAL"
    \/ from = "ARMING_MANUAL" /\ to \in {"DISARMED", "ARMED"}
    \/ from = "ARMED" /\ to = "DISARMING_TIMEOUT"
    \/ /\ from = "DISARMING_TIMEOUT" /\ to = "ARMED"
       /\ ~LowThrottle(cmd, settings, cyc.armSwitch)
    \/ /\ from = "DISARMING_TIMEOUT" /\ to = "DISARMED"
       /\ settings.ArmedTimeout # 0 /\ cyc.elapsed > settings.ArmedTimeout
    \/ from = "DISARMING_TIMEOUT" /\ to = "DISARMING_MANUAL"
    \/ from = "DISARMING_MANUAL" /\ to = "DISARMED"

\* C3 as stated: armState starts DISARMED and every change of it is one of
\* the listed transitions, DISARMING_MANUAL -> ARMED only with the throttle
\* not low.
\* Violated: DISARMING_MANUAL also returns to ARMED with the throttle low
\* when the disarm gesture is released.
DocumentedTransitionsAsStated ==
    /\ cyc.path = "none" => armState = "DISARMED"
    /\ \/ TransitionOtherThanReturn(cyc.armStateBefore, armState)
       \/ /\ cyc.armStateBefore = "DISARMING_MANUAL" /\ armState = "ARMED"
          /\ ~LowThrottle(cmd, settings, cyc.armSwitch)

\* C3 amended: armState starts DISARMED and every change of it is one of
\* the listed transitions, DISARMING_MANUAL -> ARMED with the throttle not
\* low or with the disarm gesture released.
DocumentedTransitions ==
    /\ cyc.path = "none" => armState = "DISARMED"
    /\ \/ TransitionOtherThanReturn(cyc.armStateBefore, armState)
       \/ /\ cyc.armStateBefore = "DISARMING_MANUAL" /\ armState = "ARMED"
          /\ \/ ~LowThrottle(cmd, settings, cyc.armSwitch)
             \/ ~manualDisarm(cmd, settings, cyc.armSwitch)

\* DISARMING_MANUAL went back to ARMED with the throttle low
DocumentedTransitionsWitness ==
    /\ cyc.armStateBefore = "DISARMING_MANUAL" /\ armState = "ARMED"
    /\ TableRan
    /\ ~manualDisarm(cmd, settings, cyc.armSwitch)

\* C4: from ARMING_MANUAL with the throttle low, while the gesture is held
\* and the elapsed time is below ArmingSequenceTime the state stays
\* ARMING_MANUAL and Armed is not published; with the gesture released the
\* state goes to DISARMED.
ArmingManualWaits ==
    (TableRan /\ cyc.armStateBefore = "ARMING_MANUAL")
        => /\ (manualArm(cmd, settings, cyc.armSwitch)
               /\ cyc.elapsed < settings.ArmingSequenceTime)
                  => (armState = "ARMING_MANUAL" /\ flightStatus.Armed # "ARMED")
           /\ ~manualArm(cmd, settings, cyc.armSwitch) => armState = "DISARMED"

\* the gesture is held in ARMING_MANUAL before ArmingSequenceTime has passed
ArmingManualWaitsWitness ==
    /\ TableRan /\ cyc.armStateBefore = "ARMING_MANUAL"
    /\ manualArm(cmd, settings, cyc.armSwitch)
    /\ cyc.elapsed < settings.ArmingSequenceTime
    /\ armState = "ARMING_MANUAL" /\ flightStatus.Armed = "ARMING"

\* what a raised throttle does to the state the iteration started in
ThrottleAborted ==
    /\ cyc.armStateBefore \in {"DISARMING_TIMEOUT", "DISARMING_MANUAL"}
          => armState = "ARMED"
    /\ cyc.armStateBefore = "ARMING_MANUAL" => armState = "DISARMED"

\* C5 as stated: for every arming method, an iteration whose throttle is
\* >= 0 returns DISARMING_TIMEOUT and DISARMING_MANUAL to ARMED and
\* ARMING_MANUAL to DISARMED.
\* Violated: with an accessory switch in its disarm position the throttle
\* is not checked and the disarm sequence goes on.
ThrottleAbortsSequenceAsStated ==
    (ThrottleChecked /\ cmd.Connected /\ cmd.Throttle >= 0) => ThrottleAborted

\* C5 amended: the same, unless the arming method is an accessory switch
\* and the switch is in its disarm position.
ThrottleAbortsSequence ==
    (/\ ThrottleChecked /\ cmd.Connected /\ cmd.Throttle >= 0
     /\ ~(settings.Arming \in AccessoryArming /\ cyc.armSwitch < 0))
        => ThrottleAborted

\* a raised throttle took DISARMING_MANUAL back to ARMED under
\* accessory-switch arming
ThrottleAbortsSequenceWitness ==
    /\ ThrottleChecked /\ cmd.Connected /\ cmd.Throttle >= 0
    /\ settings.Arming \in AccessoryArming /\ cyc.armSwitch >= 0
    /\ cyc.armStateBefore = "DISARMING_MANUAL" /\ armState = "ARMED"

\* C13: after every iteration of processArm in which the guidance alarm
\* is Critical, armState is DISARMED.
\* Violated: the forced-disarm branch publishes Disarmed and returns
\* before the switch on armState, which keeps its value.
ForcedDisarmResetsMachine ==
    (cyc.path = "rcvr" /\ alarms["Guidance"] = "CRITICAL") => armState = "DISARMED"

\* the switch on armState ran in DISARMING_TIMEOUT with the time since
\* armedDisarmStart beyond an ArmedTimeout that is not 0
TimedOutInDisarmingTimeout ==
    /\ TableRan /\ cyc.armStateBefore = "DISARMING_TIMEOUT"
    /\ settings.ArmedTimeout > 0 /\ cyc.elapsed > settings.ArmedTimeout

SequenceTimeInclusive ==
    /\ (/\ TableRan /\ cyc.armStateBefore = "ARMING_MANUAL"
        /\ manualArm(cmd, settings, cyc.armSwitch)
        /\ cyc.elapsed >= settings.ArmingSequenceTime)
          => armState = "ARMED"
    /\ (/\ TableRan /\ cyc.armStateBefore = "DISARMING_MANUAL"
        /\ manualDisarm(cmd, settings, cyc.armSwitch)
        /\ cyc.elapsed >= settings.DisarmingSequenceTime)
          => armState = "DISARMED"

\* an iteration that called processArm with an accessory switch as the
\* arming method, the switch in the disarm position and no forced disarm
SwitchInDisarmPosition ==
    /\ cyc.path = "rcvr"
    /\ settings.Arming \in AccessoryArming
    /\ cyc.armSwitch < 0
    /\ alarms["Guidance"] # "CRITICAL"

DecidedDisarmed ==
    /\ cyc.path = "rcvr"
    /\ cyc.armStateBefore \in {"DISARMING_TIMEOUT", "DISARMING_MANUAL", "ARMING_MANUAL"}
    /\ armState = "DISARMED"

\* C34: when an iteration takes armState from DISARMING_TIMEOUT,
\* DISARMING_MANUAL or ARMING_MANUAL to DISARMED, the next iteration that
\* reads the receiver ends with FlightStatus.Armed = Disarmed, wherever the
\* throttle is; with a gesture as arming method no two iterations in a row
\* end with armState DISARMED and Armed or Arming published.
\* Violated: processArm returns before the switch over armState when the
\* throttle is not low, and only the case ARM_STATE_DISARMED of that switch
\* publishes Disarmed; the status stays Armed (or Arming) for as long as
\* the throttle is up.
DecidedDisarmedIsPublished ==
    [][/\ (DecidedDisarmed /\ cyc'.path = "rcvr") => flightStatus'.Armed = "DISARMED"
       /\ (/\ settings.Arming \notin {"AlwaysArmed", "AlwaysDisarmed"}
           /\ armState = "DISARMED" /\ flightStatus.Armed # "DISARMED"
           /\ cyc'.path = "rcvr" /\ armState' = "DISARMED")
             => flightStatus'.Armed = "DISARMED"]_vars

-----------------------------------------------------------------------------
(* Specification SpecPreArm: the check before arming.  The arming method   *)
(* is the roll-left gesture; the flight-mode switch selects Manual or      *)
(* PositionHold; the alarms of the other modules vary.                     *)

\* roll at the gesture or centred, throttle low or centred, the switch at
\* its first (Manual) or last (PositionHold) position
PreArmFrames ==
    {Frame(r, PulseNeutral, PulseNeutral, th, m, PulseNeutral) :
        r \in {PulseMin, PulseNeutral}, th \in ThrottlePositions, m \in {PulseMin, PulseMax}}

\* no alarm; alarms that do not stop arming; an alarm that stops arming
PreArmAlarms ==
    {NoAlarms, Alarms("OK", "CRITICAL", "ERROR", "WARNING"), Alarms("OK", "OK", "OK", "ERROR")}

PreArmInput ==
    \E rx \in PreArmFrames, env \in PreArmAlarms :
        manualControlTask(Input(settings, rx, env, FALSE, TRUE, cmd))

InitPreArm == InitWith(BaseSettings)

NextPreArm == PreArmInput

SpecPreArm == InitPreArm /\ [][NextPreArm]_vars

\* the check before arming as the claim words it
PreArmCheckPasses ==
    /\ \A a \in AlarmNames \ {"GPS", "Telemetry"} : alarms[a] \notin {"ERROR", "CRITICAL"}
    /\ flightStatus.FlightMode \in {"Manual", "Stabilized1", "Stabilized2", "Stabilized3"}

\* the three conditions of the transition DISARMED -> ARMING_MANUAL
ArmingConditions ==
    /\ cmd.Throttle < 0
    /\ armingInputLevel(cmd, settings, cyc.armSwitch) <= -ARMED_THRESHOLD
    /\ PreArmCheckPasses

\* C6: armState goes from DISARMED to ARMING_MANUAL only in an iteration
\* with the throttle low, the arming gesture at or beyond the threshold and
\* the check before arming passed (no alarm but GPS and Telemetry at Error
\* or Critical, flight mode Manual or Stabilized1-3); an iteration that
\* starts in DISARMED without these ends in DISARMED.
ArmingNeedsPreArmCheck ==
    (cyc.path # "none" /\ cyc.armStateBefore = "DISARMED")
        => /\ armState \in {"DISARMED", "ARMING_MANUAL"}
           /\ armState = "ARMING_MANUAL" => ArmingConditions
           /\ ~ArmingConditions => armState = "DISARMED"

\* the arming sequence starts while the GPS alarm is Critical and the
\* telemetry alarm is Error
ArmingNeedsPreArmCheckWitness ==
    /\ cyc.armStateBefore = "DISARMED" /\ armState = "ARMING_MANUAL"
    /\ alarms["GPS"] = "CRITICAL" /\ alarms["Telemetry"] = "ERROR"
    /\ ArmingConditions

\* C36: armState goes from ARMING_MANUAL to ARMED only in an iteration in
\* which the check before arming passes (no alarm but GPS and Telemetry at
\* Error or Critical, flight mode Manual or Stabilized1-3).
\* Violated: okToArm is called in the case ARM_STATE_DISARMED only; the
\* case ARM_STATE_ARMING_MANUAL tests the gesture and the time, so an alarm
\* raised or a flight mode selected during the arming sequence does not
\* stop the transition to ARMED.
ArmedNeedsPreArmCheck ==
    (cyc.path = "rcvr" /\ cyc.armStateBefore = "ARMING_MANUAL" /\ armState = "ARMED")
        => PreArmCheckPasses

-----------------------------------------------------------------------------
(* Specification SpecLink: the receiver link.  Frames in range, frames     *)
(* whose channels timed out and frames of a receiver without driver; the   *)
(* failsafe behaviour is None or the second flight-mode slot; the arming   *)
(* method is AlwaysArmed.                                                  *)

\* the explored FailsafeBehavior option: 0 is None, n > 0 is slot n
FailsafeSlot == 2

TimeoutFrame ==
    Frame(PIOS_RCVR_TIMEOUT, PIOS_RCVR_TIMEOUT, PIOS_RCVR_TIMEOUT,
          PIOS_RCVR_TIMEOUT, PIOS_RCVR_TIMEOUT, PIOS_RCVR_TIMEOUT)

NoDriverFrame ==
    Frame(PIOS_RCVR_NODRIVER, PIOS_RCVR_NODRIVER, PIOS_RCVR_NODRIVER,
          PIOS_RCVR_NODRIVER, PIOS_RCVR_NODRIVER, PIOS_RCVR_NODRIVER)

\* roll deflected, throttle low or raised
LinkFrames ==
    {Frame(PulseMax, PulseNeutral, PulseNeutral, th, PulseMin, PulseNeutral) :
        th \in ThrottlePositions}

\* an iteration whose samples are in range
LinkValid ==
    \E rx \in LinkFrames :
        manualControlTask(Input(settings, rx, NoAlarms, FALSE, TRUE, cmd))

\* an iteration whose channels timed out
LinkTimeout ==
    manualControlTask(Input(settings, TimeoutFrame, NoAlarms, FALSE, TRUE, cmd))

\* an iteration whose receiver has no driver
LinkNoDriver ==
    manualControlTask(Input(settings, NoDriverFrame, NoAlarms, FALSE, TRUE, cmd))

InitLink ==
    \E fb \in {0, FailsafeSlot} :
        InitWith([BaseSettings EXCEPT !.Arming = "AlwaysArmed", !.FailsafeBehavior = fb])

NextLink == LinkValid \/ LinkTimeout \/ LinkNoDriver

SpecLink == InitLink /\ [][NextLink]_vars

\* Roll, Pitch, Yaw and Collective are 0 and Throttle is -1
FailsafeValues ==
    /\ cmd.Roll = 0 /\ cmd.Pitch = 0 /\ cmd.Yaw = 0 /\ cmd.Collective = 0
    /\ cmd.Throttle = -Unit

\* C7 as stated: every ManualControlCommand published with Connected =
\* false has Roll = Pitch = Yaw = Collective = 0 and Throttle = -1.
\* Violated: the iteration that finds the configuration inconsistent
\* publishes Connected = false with the stick values of the last valid
\* frame.
DisconnectedCommandIsFailsafeAsStated ==
    (cyc.published /\ ~cmd.Connected) => FailsafeValues

\* C7 amended: every ManualControlCommand published with Connected = false
\* by an iteration that found the configuration consistent has Roll =
\* Pitch = Yaw = Collective = 0 and Throttle = -1.
DisconnectedCommandIsFailsafe ==
    (cyc.published /\ cyc.path = "rcvr" /\ ~cmd.Connected) => FailsafeValues

\* a connected receiver with the roll stick deflected is declared
\* disconnected
DisconnectedCommandIsFailsafeWitness ==
    /\ cyc.published /\ cyc.path = "rcvr"
    /\ cyc.connectedBefore /\ ~cmd.Connected
    /\ FailsafeValues

\* what a disconnected iteration does to the flight mode
FailsafeApplied ==
    IF settings.FailsafeBehavior # 0
    THEN /\ flightStatus.FlightMode = settings.FlightModePosition[settings.FailsafeBehavior]
         /\ cmd.FlightModeSwitchPosition = settings.FailsafeBehavior - 1
         /\ cyc.dispatchMode = flightStatus.FlightMode
    ELSE flightStatus.FlightMode = cyc.flightModeBefore

\* C9 as stated: in every iteration that ends Disconnected, with
\* FailsafeBehavior not None the flight mode is
\* FlightModePosition[FailsafeBehavior - 1] (0-based), the switch position
\* is that slot's index and the dispatch acts on that mode; with None the
\* flight mode does not change.
\* Violated: the iteration that finds the configuration inconsistent sets
\* Connected = false and neither forces the flight mode nor dispatches.
FailsafeForcesFlightModeAsStated ==
    (cyc.path # "none" /\ ~cmd.Connected) => FailsafeApplied

\* C9 amended: the same for the iterations that found the configuration
\* consistent.
FailsafeForcesFlightMode ==
    (cyc.path = "rcvr" /\ ~cmd.Connected) => FailsafeApplied

\* a receiver connected in Manual is declared disconnected and the
\* failsafe slot forces Stabilized1
FailsafeForcesFlightModeWitness ==
    /\ cyc.path = "rcvr" /\ cyc.connectedBefore /\ ~cmd.Connected
    /\ settings.FailsafeBehavior = FailsafeSlot
    /\ cyc.flightModeBefore = "Manual"
    /\ flightStatus.FlightMode = "Stabilized1"
    /\ cyc.target = "StabilizationDesired"

\* the iteration ran the hysteresis on a sample of the receiver
Sampled == cyc.path = "rcvr"

\* C11: the connection status goes from Disconnected to Connected only on
\* the 11th consecutive valid sample: the flip needs a valid sample with the
\* valid-sample counter at 10, and an invalid sample resets that counter.
\* Violated: the else-if of the hysteresis increments disconnected_count
\* on an invalid sample and leaves connected_count as it is, so valid
\* samples that are not consecutive add up to the 11.
ConnectNeedsConsecutiveValid ==
    /\ (Sampled /\ ~cyc.connectedBefore /\ cmd.Connected)
          => (cyc.valid /\ cyc.ccBefore = HYSTERESIS_COUNT)
    /\ (Sampled /\ ~cyc.valid) => connected_count = 0

\* C12: the connection status goes from Connected to Disconnected only on
\* the 11th consecutive invalid sample: the flip needs an invalid sample
\* with the invalid-sample counter at 10, and a valid sample resets that
\* counter.
\* Violated: a valid sample increments connected_count and leaves
\* disconnected_count as it is, so isolated invalid samples add up to the
\* 11.
DisconnectNeedsConsecutiveInvalid ==
    /\ (Sampled /\ cyc.connectedBefore /\ ~cmd.Connected)
          => (~cyc.valid /\ cyc.dcBefore = HYSTERESIS_COUNT)
    /\ (Sampled /\ cyc.valid) => disconnected_count = 0

\* the required axes of the input-fault rule
StickAxes == {"Roll", "Pitch", "Yaw", "Throttle"}

\* a required axis timed out in the iteration, none was without driver
StickTimedOut ==
    /\ cyc.path # "none"
    /\ cyc.timedout \cap StickAxes # {}
    /\ cyc.unbound \cap StickAxes = {}

\* a required axis was without driver in the iteration
StickUnbound == cyc.path # "none" /\ cyc.unbound \cap StickAxes # {}

\* the iteration did not set the published armed status to DISARMED
NotDisarmedByIteration ==
    flightStatus.Armed = "DISARMED" => cyc.armedBefore = "DISARMED"

\* the sample counted as an invalid one in the connection hysteresis
CountedInvalid ==
    /\ ~cyc.valid
    /\ IF cyc.dcBefore = HYSTERESIS_COUNT
       THEN ~cmd.Connected /\ disconnected_count = 0 /\ connected_count = 0
       ELSE /\ disconnected_count = cyc.dcBefore + 1
            /\ connected_count = cyc.ccBefore
            /\ cmd.Connected = cyc.connectedBefore

\* C19 as stated: an iteration with a timed-out or driverless channel on
\* Roll, Pitch, Yaw or Throttle does not set the published armed status to
\* DISARMED (the arming method is AlwaysArmed, so nothing else disarms).
\* Violated: a driverless channel is a configuration error, which disarms.
InputFaultDoesNotDisarmAsStated ==
    (StickTimedOut \/ StickUnbound) => NotDisarmedByIteration

\* C19 amended: an iteration with a timed-out channel on a required axis
\* (and a driver for each of them) processes the receiver input, counts
\* the sample as invalid in the connection hysteresis and does not set the
\* published armed status to DISARMED.  An iteration with a driverless
\* channel on a required axis is a configuration error: it publishes
\* DISARMED and leaves the hysteresis counters alone.
InputFaultDoesNotDisarm ==
    /\ StickTimedOut
          => (cyc.path = "rcvr" /\ CountedInvalid /\ NotDisarmedByIteration)
    /\ StickUnbound
          => /\ cyc.path = "cfgerr"
             /\ flightStatus.Armed = "DISARMED"
             /\ connected_count = cyc.ccBefore
             /\ disconnected_count = cyc.dcBefore

\* the channels time out while the vehicle is armed, and it stays armed
InputFaultDoesNotDisarmWitness ==
    /\ StickTimedOut
    /\ cyc.armedBefore = "ARMED"
    /\ flightStatus.Armed = "ARMED"
    /\ cyc.connectedBefore /\ ~cmd.Connected

ConnectedAssigned ==
    \/ cyc.path = "cfgerr"
    \/ /\ cyc.path = "rcvr"
       /\ \/ cyc.valid /\ cyc.ccBefore = HYSTERESIS_COUNT
          \/ ~cyc.valid /\ cyc.dcBefore = HYSTERESIS_COUNT

\* C38: at the end of every iteration connected_count and
\* disconnected_count are in 0..10, at most one of them was incremented by
\* the iteration, and both are 0 after an iteration that assigned
\* cmd.Connected.
\* Violated: the configuration check assigns Connected = false and leaves
\* through "continue" without touching the counters.
HysteresisCountersBounded ==
    /\ connected_count \in 0 .. HYSTERESIS_COUNT
    /\ disconnected_count \in 0 .. HYSTERESIS_COUNT
    /\ cyc.path # "none"
          => ~(connected_count > cyc.ccBefore /\ disconnected_count > cyc.dcBefore)
    /\ ConnectedAssigned => (connected_count = 0 /\ disconnected_count = 0)

-----------------------------------------------------------------------------
(* Specification SpecConfig: the configuration check.  FlightModeNumber    *)
(* is rewritten between iterations, in and out of its range; the receiver  *)
(* gives frames in range or has no driver; the ground station may take the *)
(* command object over.  The arming method is AlwaysArmed.                 *)

\* FlightModeNumber: below the range, the number of BaseSettings, above
\* the range
FlightModeNumbers == {0, BaseSettings.FlightModeNumber, FLIGHTMODEPOSITION_NUMELEM + 1}

\* the settings at hand with FlightModeNumber n
WithNumber(n) == [settings EXCEPT !.FlightModeNumber = n]

\* an iteration with consistent settings and a frame in range
ConfigValid ==
    \E rx \in LinkFrames :
        manualControlTask(Input(WithNumber(BaseSettings.FlightModeNumber), rx, NoAlarms,
                                FALSE, TRUE, cmd))

\* an iteration whose FlightModeNumber is out of range
ConfigBadNumber ==
    \E rx \in LinkFrames, n \in FlightModeNumbers \ {BaseSettings.FlightModeNumber} :
        manualControlTask(Input(WithNumber(n), rx, NoAlarms, FALSE, TRUE, cmd))

\* an iteration whose receiver has no driver
ConfigNoDriver ==
    manualControlTask(Input(WithNumber(BaseSettings.FlightModeNumber), NoDriverFrame,
                            NoAlarms, FALSE, TRUE, cmd))

\* an iteration under ground-station control, with any FlightModeNumber
ConfigGcs ==
    \E n \in FlightModeNumbers, gc \in GcsCommands :
        manualControlTask(Input(WithNumber(n), NoDriverFrame, NoAlarms, TRUE, TRUE, gc))

InitConfig == InitWith([BaseSettings EXCEPT !.Arming = "AlwaysArmed"])

NextConfig == ConfigValid \/ ConfigBadNumber \/ ConfigNoDriver \/ ConfigGcs

SpecConfig == InitConfig /\ [][NextConfig]_vars

\* the channels the configuration needs: the sticks, and the flight-mode
\* switch when there is more than one flight mode
RequiredChannels ==
    {"Roll", "Pitch", "Yaw", "Throttle"}
        \cup (IF settings.FlightModeNumber > 1 THEN {"FlightMode"} ELSE {})

\* the configuration of the iteration was inconsistent: a required channel
\* unmapped or without driver, or FlightModeNumber out of range
Inconsistent ==
    /\ cyc.path # "none"
    /\ \/ settings.FlightModeNumber < 1
       \/ settings.FlightModeNumber > FLIGHTMODEPOSITION_NUMELEM
       \/ \E n \in RequiredChannels :
             settings.ChannelGroups[n] = "None" \/ n \in cyc.unbound

\* what the iteration does on an inconsistent configuration
Stopped ==
    /\ alarms["ManualControl"] = "CRITICAL"
    /\ cyc.published /\ ~cmd.Connected
    /\ flightStatus.Armed = "DISARMED"
    /\ cyc.step = "none" /\ armState = cyc.armStateBefore
    /\ cyc.target = "none"

\* C10 as stated: an iteration whose configuration is inconsistent sets
\* the manual-control alarm to Critical, publishes Connected = false, sets
\* Armed to Disarmed, and runs neither the arming step nor the dispatch.
\* Violated: under ground-station control the configuration is not
\* checked; the dispatch runs and Armed is left as it is.
ConfigurationErrorStopsAsStated == Inconsistent => Stopped

\* C10 amended: the same for the iterations that read the receiver, which
\* are those not under ground-station control.
ConfigurationErrorStops == (Inconsistent /\ cyc.path # "gcs") => Stopped

\* an armed vehicle is disarmed by an iteration whose FlightModeNumber is
\* out of range
ConfigurationErrorStopsWitness ==
    /\ Inconsistent /\ cyc.path = "cfgerr"
    /\ settings.FlightModeNumber > FLIGHTMODEPOSITION_NUMELEM
    /\ cyc.armedBefore = "ARMED" /\ cyc.connectedBefore
    /\ Stopped

\* C26: every iteration of the loop refreshes the watchdog flag exactly
\* once, whichever path it takes: the receiver path, the "continue" of an
\* inconsistent configuration, the ground-station path.
WatchdogOncePerIteration ==
    cyc.path \in {"rcvr", "cfgerr", "gcs"} => cyc.wdg = 1

\* an iteration that left through the "continue" refreshed the watchdog
WatchdogOncePerIterationWitness ==
    cyc.path = "cfgerr" /\ Inconsistent /\ Stopped /\ cyc.wdg = 1

-----------------------------------------------------------------------------
(* Specification SpecLost: the link is lost while armed.  The arming       *)
(* method is the roll-left gesture with the timeout on or off, or          *)
(* AlwaysArmed; the frames hold the gesture with the throttle low, centre  *)
(* the roll with the throttle raised, or time out.  The task loop never    *)
(* ends and vTaskDelayUntil returns every period: the iterations are       *)
(* weakly fair.                                                            *)

\* (Arming, ArmedTimeout) pairs; ArmedTimeout 0 turns the timeout off
LostConfigurations ==
    {<<"RollLeft", ArmedTimeoutMs>>, <<"RollLeft", 0>>, <<"AlwaysArmed", ArmedTimeoutMs>>}

LostFrames ==
    {Frame(PulseMin, PulseNeutral, PulseNeutral, PulseMin, PulseMin, PulseNeutral),
     Frame(PulseNeutral, PulseNeutral, PulseNeutral, PulseNeutral, PulseMin, PulseNeutral)}

\* an iteration whose samples are in range
LostValid ==
    \E rx \in LostFrames :
        manualControlTask(Input(settings, rx, NoAlarms, FALSE, TRUE, cmd))

\* an iteration whose channels timed out
LostTimeout ==
    manualControlTask(Input(settings, TimeoutFrame, NoAlarms, FALSE, TRUE, cmd))

InitLost ==
    \E c \in LostConfigurations :
        InitWith([BaseSettings EXCEPT !.Arming = c[1], !.ArmedTimeout = c[2]])

NextLost == LostValid \/ LostTimeout

SpecLost == InitLost /\ [][NextLost]_vars /\ WF_vars(NextLost)

\* the receiver is disconnected and Armed is published
LostWhileArmed == ~cmd.Connected /\ flightStatus.Armed = "ARMED"

\* a disconnected iteration ran the arming logic with the throttle low:
\* past the throttle check, into the switch on armState or the
\* always-armed branch
ArmingRanLowThrottle ==
    (cyc.path = "rcvr" /\ ~cmd.Connected) => cyc.step \in {"table", "alwaysArmed"}

-----------------------------------------------------------------------------
(* Specification SpecNoTimeout: the arming state machine with the timeout  *)
(* turned off (ArmedTimeout = 0).  The arming method is the roll-left      *)
(* gesture; the guidance alarm comes and goes.                             *)

NoTimeoutInput ==
    \E rx \in GestureFrames(settings), env \in GuidanceAlarms :
        manualControlTask(Input(settings, rx, env, FALSE, TRUE, cmd))

InitNoTimeout == InitWith([BaseSettings EXCEPT !.ArmedTimeout = 0])

NextNoTimeout == NoTimeoutInput

SpecNoTimeout == InitNoTimeout /\ [][NextNoTimeout]_vars

\* C15: with ArmedTimeout = 0 armState never goes from DISARMING_TIMEOUT
\* to DISARMED, and an iteration in DISARMING_TIMEOUT with the throttle low
\* and no disarm gesture ends in DISARMING_TIMEOUT with Armed published.
\* Violated: after a forced disarm armState is still DISARMING_TIMEOUT
\* while Disarmed is published, and the state publishes nothing.
NoTimeoutStaysArmed ==
    settings.ArmedTimeout = 0
        => /\ ~(cyc.armStateBefore = "DISARMING_TIMEOUT" /\ armState = "DISARMED")
           /\ (/\ TableRan /\ cyc.armStateBefore = "DISARMING_TIMEOUT"
               /\ ~manualDisarm(cmd, settings, cyc.armSwitch))
                 => (armState = "DISARMING_TIMEOUT" /\ flightStatus.Armed = "ARMED")

-----------------------------------------------------------------------------
(* Specification SpecReconfig: the arming method is rewritten between      *)
(* iterations (the task reads ManualControlSettings at the start of every  *)
(* iteration), among the roll-left gesture and the two unconditional       *)
(* methods; no alarm is raised; the ground station may take the command   *)
(* object over.                                                            *)

ReconfigArming == {"RollLeft", "AlwaysArmed", "AlwaysDisarmed"}

\* the settings object as the next iteration reads it
Reconfigured == {[settings EXCEPT !.Arming = a] : a \in ReconfigArming}

\* the roll stick and the throttle move whatever the arming method is
ReconfigFrames == GestureFrames(BaseSettings)

\* an iteration that reads the settings and then the receiver
ReconfigReceiver ==
    \E s \in Reconfigured, rx \in ReconfigFrames :
        manualControlTask(Input(s, rx, NoAlarms, FALSE, TRUE, cmd))

\* an iteration that reads the settings under ground-station control
ReconfigGcs ==
    \E s \in Reconfigured, gc \in GcsCommands :
        manualControlTask(Input(s, Frame(PulseNeutral, PulseNeutral, PulseNeutral,
                                         PulseMin, PulseMin, PulseNeutral),
                                NoAlarms, TRUE, TRUE, gc))

InitReconfig == InitWith(BaseSettings)

NextReconfig == ReconfigReceiver \/ ReconfigGcs

SpecReconfig == InitReconfig /\ [][NextReconfig]_vars

\* C17: with Arming = AlwaysDisarmed the published armed status is
\* DISARMED at the end of every iteration.  Violated: an iteration under
\* ground-station control does not call processArm, and a vehicle armed
\* before the method was set stays armed.
AlwaysDisarmedPublishesDisarmed ==
    (cyc.path # "none" /\ settings.Arming = "AlwaysDisarmed")
        => flightStatus.Armed = "DISARMED"

AlwaysArmedInForce ==
    /\ cyc.path # "none"
    /\ settings.Arming = "AlwaysArmed"
    /\ alarms["Guidance"] # "CRITICAL"

\* C18 as stated: with Arming = AlwaysArmed and no forced disarm, Armed is
\* published at the end of every iteration with the throttle low, and
\* armState is not modified.
AlwaysArmedBypassAsStated ==
    AlwaysArmedInForce
        => /\ cmd.Throttle < 0 => flightStatus.Armed = "ARMED"
           /\ armState = cyc.armStateBefore

\* C18: with Arming = AlwaysArmed and no forced disarm, an iteration that
\* calls processArm never runs the table.  With the throttle low (or the
\* receiver disconnected) it publishes ARMED and leaves armState alone;
\* with the throttle raised it leaves the published status alone and
\* applies the throttle abort to armState (a disarming state returns to
\* ARMED, ARMING_MANUAL returns to DISARMED).  An iteration that does not
\* call processArm leaves armState alone.
AlwaysArmedBypass ==
    /\ (AlwaysArmedInForce /\ cyc.path = "rcvr")
          => IF cmd.Throttle < 0 \/ ~cmd.Connected
             THEN /\ cyc.step = "alwaysArmed"
                  /\ flightStatus.Armed = "ARMED"
                  /\ armState = cyc.armStateBefore
             ELSE /\ cyc.step = "throttle"
                  /\ flightStatus.Armed = cyc.armedBefore
                  /\ armState =
                        CASE cyc.armStateBefore \in {"DISARMING_MANUAL", "DISARMING_TIMEOUT"}
                                -> "ARMED"
                          [] cyc.armStateBefore = "ARMING_MANUAL" -> "DISARMED"
                          [] OTHER -> cyc.armStateBefore
    /\ (AlwaysArmedInForce /\ cyc.path # "rcvr") => armState = cyc.armStateBefore

\* the throttle is raised while armState is a disarming state left over
\* from the gesture method: armState is modified
AlwaysArmedBypassWitness ==
    /\ AlwaysArmedInForce /\ cyc.path = "rcvr"
    /\ cmd.Throttle >= 0 /\ cmd.Connected
    /\ cyc.armStateBefore = "DISARMING_MANUAL"
    /\ armState = "ARMED"

-----------------------------------------------------------------------------
(* Specification SpecScale: the scaling of the samples into the published  *)
(* commands.  The calibration is in order, reversed or degenerate, with    *)
(* and without deadband; the sticks move within the accepted band around   *)
(* the calibrated range, the collective and accessory samples lie far      *)
(* outside it.  The arming method is AlwaysDisarmed.                       *)

\* how far a stick sample lies beyond the calibrated end points (inside
\* CONNECTION_OFFSET)
OverTravel == 200
\* how far a collective or accessory sample lies beyond them
FarOff == 600
\* the explored deadband, in 1/Unit
DeadbandSteps == 100

\* min, neutral, max: in order, reversed, max = neutral, all equal,
\* neutral above max
Calibrations ==
    {<<PulseMin, PulseNeutral, PulseMax>>,
     <<PulseMax, PulseNeutral, PulseMin>>,
     <<PulseMin, PulseMax, PulseMax>>,
     <<PulseNeutral, PulseNeutral, PulseNeutral>>,
     <<PulseMin, PulseMax + OverTravel, PulseMax>>}

Deadbands == {0, DeadbandSteps, Unit + DeadbandSteps}

ScaleSettings(cal, db) ==
    [BaseSettings EXCEPT
        !.Arming = "AlwaysDisarmed",
        !.Deadband = db,
        !.ChannelGroups = [n \in Channels |->
                              IF n \in MappedChannels \cup {"Collective"}
                              THEN "PWM" ELSE "None"],
        !.ChannelMin = [n \in Channels |-> cal[1]],
        !.ChannelNeutral = [n \in Channels |-> cal[2]],
        !.ChannelMax = [n \in Channels |-> cal[3]]]

\* stick samples that validInputRange accepts under every calibration
StickSamples ==
    {PulseMin - OverTravel, PulseMin, PulseNeutral, PulseMax, PulseMax + OverTravel}

\* collective and accessory samples, which no range check filters
FarSamples == {PulseMin - FarOff, PulseNeutral, PulseMax + FarOff, PIOS_RCVR_NODRIVER}

\* an iteration that reads the sticks at v and the other channels at a
ScaleInput ==
    \E v \in StickSamples, a \in FarSamples :
        manualControlTask(Input(settings,
                                [Frame(v, v, v, v, PulseNeutral, a) EXCEPT !["Collective"] = a],
                                NoAlarms, FALSE, TRUE, cmd))

InitScale ==
    \E cal \in Calibrations, db \in Deadbands : InitWith(ScaleSettings(cal, db))

NextScale == ScaleInput

SpecScale == InitScale /\ [][NextScale]_vars

Normalized(x) == -Unit <= x /\ x <= Unit

\* C21: every normalized value stored in ManualControlCommand (Roll,
\* Pitch, Yaw, Throttle, Collective) and in the AccessoryDesired instances
\* lies in [-1, 1], after any sequence of iterations.
CommandValuesNormalized ==
    /\ \A f \in {"Roll", "Pitch", "Yaw", "Throttle", "Collective"} : Normalized(cmd[f])
    /\ \A a \in AccessoryArming : Normalized(accessory[a])

\* samples beyond the calibrated end points were scaled and stored: the
\* sticks at the upper limit less the deadband, the collective and the
\* accessory at the lower limit
CommandValuesNormalizedWitness ==
    /\ cyc.path = "rcvr" /\ cyc.valid /\ cyc.published /\ cmd.Connected
    /\ settings.Deadband = DeadbandSteps
    /\ cmd.Roll = Unit - DeadbandSteps
    /\ cmd.Throttle = Unit
    /\ cmd.Collective = -Unit
    /\ accessory["Accessory0"] = -Unit

-----------------------------------------------------------------------------
(* Specification SpecDecode: the decoding of the flight-mode switch on its *)
(* own, for every FlightModeNumber in range and every switch value in      *)
(* [-1, 1].                                                                *)

\* the state of the task stays as initialised
TaskIdle ==
    UNCHANGED <<armState, flightStatus, cmd, connected_count, disconnected_count,
                sinceArmedDisarmStart, lastFlightMode, settings, alarms,
                accessory, cmdReadOnly, cyc, activity>>

SwitchValues == (-Unit) .. Unit

\* pos of processFlightMode for the switch value and the FlightModeNumber
\* that the initial state holds
DecodeSwitch ==
    /\ call.fn = "arguments"
    /\ call' = [fn |-> "processFlightMode", n |-> call.n, value |-> call.value,
                fixed |-> SwitchFixed(call.value),
                pos |-> SwitchPosition(call.value, call.n)]
    /\ TaskIdle

InitDecode ==
    /\ InitTask(BaseSettings)
    /\ activity = NotObserved
    /\ \E n \in 1 .. FLIGHTMODEPOSITION_NUMELEM, v \in SwitchValues :
          call = [fn |-> "arguments", n |-> n, value |-> v]

NextDecode == DecodeSwitch

SpecDecode == InitDecode /\ [][NextDecode]_vars

Decoded == call.fn = "processFlightMode"

\* C22: for every FlightModeNumber n in range and every switch value in
\* [-1, 1], with x = int(value * 256), the decoded position is
\* ((x + 256) * n) >> 9 clamped to 0..n-1; it lies in 0..n-1, does not
\* decrease with the value, is 0 at -1.0 and n-1 at 1.0, and is 1 at 0.0
\* for n = 3.
DecodeCoversRange ==
    Decoded
        => /\ call.fixed \in (-256) .. 256
           /\ LET raw == ((call.fixed + 256) * call.n) \div 512
              IN  call.pos = (IF raw > call.n - 1 THEN call.n - 1
                              ELSE IF raw < 0 THEN 0 ELSE raw)
           /\ call.pos \in 0 .. (call.n - 1)
           /\ call.value - 1 \in SwitchValues
                 => SwitchPosition(call.value - 1, call.n) <= call.pos
           /\ call.value = -Unit => call.pos = 0
           /\ call.value = Unit => call.pos = call.n - 1
           /\ (call.n = 3 /\ call.value = 0) => call.pos = 1

\* the switch at 1.0 with three positions: the position is the last one
DecodeCoversRangeWitness ==
    Decoded /\ call.n = 3 /\ call.value = Unit /\ call.pos = 2

-----------------------------------------------------------------------------
(* Specification SpecScaleChannel: scaleChannel on its own, for samples    *)
(* and calibrations over the whole int16_t range: in order, reversed,      *)
(* equal end points, neutral at or beyond an end point.                    *)

INT16_MIN == -32768
INT16_MAX == 32767

\* the values of ChannelMin, ChannelNeutral and ChannelMax
CalibrationPoints ==
    {INT16_MIN, PulseMin, PulseMin + OverTravel, PulseNeutral, PulseMax, INT16_MAX}

\* the samples: the calibration points, their neighbours, values far
\* beyond them and the error codes of the driver as int16_t
ScaleSamples ==
    CalibrationPoints
        \cup {PulseMin - FarOff, PulseMin + 1, PulseNeutral - 1, PulseNeutral + 1,
              PulseMax - 1, PulseMax + FarOff}
        \cup {ToInt16(e) : e \in RcvrErrors}

\* scaleChannel on the arguments that the initial state holds
ScaleSample ==
    /\ call.fn = "arguments"
    /\ call' = [fn |-> "scaleChannel", value |-> call.value, max |-> call.max,
                min |-> call.min, neutral |-> call.neutral,
                result |-> scaleChannel(call.value, call.max, call.min, call.neutral)]
    /\ TaskIdle

InitScaleChannel ==
    /\ InitTask(BaseSettings)
    /\ activity = NotObserved
    /\ \E v \in ScaleSamples, hi \in CalibrationPoints, lo \in CalibrationPoints,
          mid \in CalibrationPoints :
          call = [fn |-> "arguments", value |-> v, max |-> hi, min |-> lo, neutral |-> mid]

NextScaleChannel == ScaleSample

SpecScaleChannel == InitScaleChannel /\ [][NextScaleChannel]_vars

Scaled == call.fn = "scaleChannel"

\* the branch of scaleChannel that divides by max - neutral was selected
IncreasingSide ==
    \/ call.max > call.min /\ call.value >= call.neutral
    \/ call.min > call.max /\ call.value <= call.neutral

\* the divisor of the selected branch is zero
ZeroDivisor ==
    IF IncreasingSide THEN call.max = call.neutral ELSE call.min = call.neutral

\* C24: for every sample and every min, neutral, max, the result of
\* scaleChannel is a number in [-1, 1] (no division by zero), and it is 0
\* when the divisor of the selected side is zero.
ScaleChannelGuarded ==
    Scaled
        => /\ call.result \in (-Unit) .. Unit
           /\ ZeroDivisor => call.result = 0

\* the sample lies above a neutral that equals max: the divisor is zero
ScaleChannelGuardedWitness ==
    /\ Scaled /\ ZeroDivisor /\ IncreasingSide
    /\ call.max > call.min /\ call.value > call.neutral
    /\ call.result = 0

\* neutral lies strictly between min and max, in order or reversed
ProperCalibration ==
    \/ call.min < call.neutral /\ call.neutral < call.max
    \/ call.max < call.neutral /\ call.neutral < call.min

\* the results for the samples below the one scaled
ResultsBelow ==
    {scaleChannel(w, call.max, call.min, call.neutral) :
        w \in {x \in ScaleSamples \cup {call.value - 1} : INT16_MIN <= x /\ x < call.value}}

\* the result hits the calibration points, is cut to 1.0 and -1.0 beyond
\* them, and rises with the sample (falls, for a reversed range)
HitsCalibrationPoints ==
    /\ call.value = call.neutral => call.result = 0
    /\ call.value = call.max => call.result = Unit
    /\ call.value = call.min => call.result = -Unit
    /\ IF call.max >= call.min
       THEN /\ call.value >= call.max => call.result = Unit
            /\ call.value <= call.min => call.result = -Unit
            /\ \A r \in ResultsBelow : r <= call.result
       ELSE /\ call.value <= call.max => call.result = Unit
            /\ call.value >= call.min => call.result = -Unit
            /\ \A r \in ResultsBelow : r >= call.result

\* C25 as stated: for every min, neutral, max the result is monotonic in
\* the sample, 0 at neutral, 1.0 at max and beyond, -1.0 at min and beyond.
\* Violated: with neutral at max the result at max is 0, and with neutral
\* beyond an end point the result is not monotonic.
ScaleChannelMonotonicAsStated == Scaled => HitsCalibrationPoints

\* C25 amended: the same, for a calibration whose neutral lies strictly
\* between min and max.
ScaleChannelMonotonic == (Scaled /\ ProperCalibration) => HitsCalibrationPoints

\* a sample far above max under a calibration in order is cut to 1.0
ScaleChannelMonotonicWitness ==
    /\ Scaled /\ ProperCalibration
    /\ call.min = PulseMin /\ call.neutral = PulseNeutral /\ call.max = PulseMax
    /\ call.value = PulseMax + FarOff
    /\ call.result = Unit

-----------------------------------------------------------------------------
(* Specification SpecHeld: the configuration and the samples are held      *)
(* unchanged from the first iteration on.  The arming method is the        *)
(* roll-left gesture or AlwaysArmed, with and without a failsafe mode; the *)
(* frame is in range (any stick, throttle and switch position), timed out  *)
(* or without driver.                                                      *)

HeldSettings ==
    {[BaseSettings EXCEPT !.Arming = a, !.FailsafeBehavior = fb] :
        a \in {"RollLeft", "AlwaysArmed"}, fb \in {0, FailsafeSlot}}

HeldFrames ==
    {Frame(r, PulseNeutral, PulseNeutral, th, m, PulseNeutral) :
        r \in Positions, th \in ThrottlePositions, m \in Positions}
        \cup {TimeoutFrame, NoDriverFrame}

\* an iteration on the frame that the run holds
HeldInput ==
    /\ call.fn = "held"
    /\ manualControlTask(Input(settings, call.rx, NoAlarms, FALSE, TRUE, cmd))

InitHeld ==
    /\ \E s \in HeldSettings : InitTask(s)
    /\ activity = NotObserved
    /\ \E rx \in HeldFrames : call = [fn |-> "held", rx |-> rx]

NextHeld == HeldInput

SpecHeld == InitHeld /\ [][NextHeld]_vars

\* the published outputs: ManualControlCommand, FlightStatus, the
\* accessory values and the object the dispatch writes
Outputs == <<cmd, flightStatus, accessory, cyc.target>>

-----------------------------------------------------------------------------
(* Specification SpecActivity: the receiver-activity monitor of a vehicle  *)
(* that stays disarmed.  The sticks have no driver, so every iteration     *)
(* leaves through the "continue" of the configuration check; the PWM and   *)
(* SBus groups, the GCS group alone, or no group is bound to a driver; two *)
(* channels of every group move.  An operator who has been idle for        *)
(* QuietAfterMs stays idle until the monitor is reset.                     *)

QuietAfterMs == 100

\* the sets of bound groups (pios_rcvr_group_map): PWM and SBus, GCS, none
ActivityMaps == {{0, 4}, {5}, {}}

\* a channel at rest, moved by exactly the minimum range, moved by more
Still == PulseNeutral
AtRange == PulseNeutral + RCVR_ACTIVITY_MONITOR_MIN_RANGE
Moved == PulseNeutral + RCVR_ACTIVITY_MONITOR_MIN_RANGE + 1

\* PIOS_RCVR_Read(group, channel): channel 1 at p1, channel 2 at p2, the
\* others at rest
ActivityRead(p1, p2) ==
    [g \in 0 .. (MANUALCONTROLSETTINGS_CHANNELGROUPS_NONE - 1) |->
        [ch \in GroupChannels |->
            IF ch = 1 THEN p1 ELSE IF ch = 2 THEN p2 ELSE Still]]

\* the input of an iteration together with the reads of the monitor
MonitoredInput(in, read) ==
    [settings |-> in.settings, rx |-> in.rx, env |-> in.env, readOnly |-> in.readOnly,
     telemetry |-> in.telemetry, gcsCmd |-> in.gcsCmd, act |-> read]

\* an iteration of a task whose sticks have no driver
MonitorInput ==
    \E p1 \in {Still, AtRange, Moved}, p2 \in {Still, Moved} :
        /\ activity.since >= QuietAfterMs => (p1 = Still /\ p2 = Still)
        /\ manualControlTask(MonitoredInput(Input(settings, NoDriverFrame, NoAlarms,
                                                  FALSE, TRUE, cmd),
                                            ActivityRead(p1, p2)))

InitActivity ==
    /\ InitTask([BaseSettings EXCEPT !.Arming = "AlwaysDisarmed"])
    /\ call = [fn |-> "none"]
    /\ \E map \in ActivityMaps : activity = InitMonitor(map)

NextActivity == MonitorInput

SpecActivity == InitActivity /\ [][NextActivity]_vars

\* the iteration compared the current group with its baseline
Compared ==
    /\ activity.observed /\ activity.hist.ran
    /\ activity.hist.fsmBefore.group \in activity.map
    /\ activity.hist.fsmBefore.sample_count # 0

\* the channels whose sample differs from the baseline by more than 10
MovedChannels ==
    LET h == activity.hist
    IN  {ch \in GroupChannels :
            \/ h.read[h.fsmBefore.group][ch] - h.fsmBefore.prev[ch] > 10
            \/ h.fsmBefore.prev[ch] - h.read[h.fsmBefore.group][ch] > 10}

\* g is the bound group that follows group g0 in the round: no bound
\* group lies between them
FollowsInRound(g0, g) ==
    /\ g \in activity.map
    /\ \E d \in 1 .. MANUALCONTROLSETTINGS_CHANNELGROUPS_NONE :
          /\ g = (g0 + d) % MANUALCONTROLSETTINGS_CHANNELGROUPS_NONE
          /\ \A e \in 1 .. (d - 1) :
                (g0 + e) % MANUALCONTROLSETTINGS_CHANNELGROUPS_NONE \notin activity.map

\* updateRcvrActivity left the monitor at group g with its baseline taken
BaselineTaken(g) ==
    LET h == activity.hist
    IN  /\ h.fsmUpdated.group = g
        /\ h.fsmUpdated.sample_count = 1
        /\ h.fsmUpdated.prev = [ch \in GroupChannels |-> h.read[g][ch]]

\* C28: an iteration that compares the current group with its baseline
\* reports activity if and only if some channel differs from its baseline
\* by more than 10, and then the group and such a channel are marked
\* active; afterwards the monitor is at the next bound group of the round
\* with that group's baseline taken.
ActivityComparison ==
    Compared
        => /\ activity.hist.updated <=> MovedChannels # {}
           /\ activity.hist.updated
                 => /\ activity.hist.dataUpdated.ActiveGroup
                          = GroupNames[activity.hist.fsmBefore.group + 1]
                    /\ activity.hist.dataUpdated.ActiveChannel \in MovedChannels
           /\ \E g \in activity.map :
                 FollowsInRound(activity.hist.fsmBefore.group, g) /\ BaselineTaken(g)

\* a channel of the PWM group moved: activity is reported for PWM and the
\* monitor is at SBus, skipping the three unbound groups between them
ActivityComparisonWitness ==
    /\ Compared /\ activity.hist.updated
    /\ activity.hist.fsmBefore.group = 0
    /\ activity.hist.dataUpdated = [ActiveGroup |-> "PWM", ActiveChannel |-> 2]
    /\ BaselineTaken(4)

\* updateRcvrActivity moved the monitor to another group
Advanced ==
    /\ activity.observed /\ activity.hist.ran
    /\ activity.hist.fsmUpdated.group # activity.hist.fsmBefore.group

\* C29 as stated: the current group changes at most every second
\* iteration.  Violated: the baseline of the next group is taken by the
\* iteration that compares the current one, so with two bound groups the
\* group changes in every iteration.
ActivityAdvancesEverySecondCycle ==
    [][(Advanced /\ activity'.hist.ran)
          => activity'.hist.fsmUpdated.group = activity'.hist.fsmBefore.group]_vars

\* C29 amended: an iteration that finds the current group bound and without
\* baseline takes the baseline, does not advance and reports no activity;
\* this happens only at the start and after a reset.  Every other iteration
\* on a bound group compares and leaves the monitor at the next bound
\* group with its baseline taken: one group per iteration.
ActivityAdvancesEveryCycle ==
    /\ (/\ activity.observed /\ activity.hist.ran
        /\ activity.hist.fsmBefore.group \in activity.map)
          => IF activity.hist.fsmBefore.sample_count = 0
             THEN /\ BaselineTaken(activity.hist.fsmBefore.group)
                  /\ ~activity.hist.updated
             ELSE \E g \in activity.map :
                     FollowsInRound(activity.hist.fsmBefore.group, g) /\ BaselineTaken(g)
    /\ (/\ activity.observed /\ activity.hist.ran
        /\ activity.fsm.group \in activity.map
        /\ activity.fsm.sample_count = 0)
          => activity.hist.reset

\* two iterations in a row moved the monitor: from SBus to PWM, after the
\* iteration before had moved it to SBus
ActivityAdvancesEveryCycleWitness ==
    /\ Advanced /\ Compared
    /\ activity.hist.fsmBefore.group = 4
    /\ activity.hist.fsmBefore.sample_count = 1
    /\ BaselineTaken(0)

-----------------------------------------------------------------------------
(* Specification SpecActivityArm: the receiver-activity monitor of a       *)
(* vehicle that arms and disarms.  The sticks are in range with the        *)
(* throttle low; the arming method is rewritten between AlwaysArmed and    *)
(* AlwaysDisarmed; the PWM and SBus groups are bound to a driver and one   *)
(* channel that no stick is assigned to moves.  An operator who has been   *)
(* idle for QuietAfterMs stays idle until the monitor is reset.            *)

ArmingMethods == {"AlwaysArmed", "AlwaysDisarmed"}

\* the sticks at rest, the throttle low
RestFrame ==
    Frame(PulseNeutral, PulseNeutral, PulseNeutral, PulseMin, PulseMin, PulseNeutral)

\* an iteration that reads the settings, the monitored groups and the sticks
ArmInput ==
    \E a \in ArmingMethods, p1 \in {Still, Moved} :
        /\ activity.since >= QuietAfterMs => p1 = Still
        /\ manualControlTask(MonitoredInput(Input([settings EXCEPT !.Arming = a],
                                                  RestFrame, NoAlarms, FALSE, TRUE, cmd),
                                            ActivityRead(p1, Still)))

InitActivityArm ==
    /\ InitTask([BaseSettings EXCEPT !.Arming = "AlwaysDisarmed"])
    /\ call = [fn |-> "none"]
    /\ activity = InitMonitor({0, 4})

NextActivityArm == ArmInput

SpecActivityArm == InitActivityArm /\ [][NextActivityArm]_vars

\* the monitor is as resetRcvrActivity leaves it: at the first group, no
\* baseline, no active group or channel reported
MonitorReset ==
    /\ activity.fsm.group = 0
    /\ activity.fsm.sample_count = 0
    /\ activity.data = [ActiveGroup |-> "None", ActiveChannel |-> 255]

\* the iteration took the vehicle out of Disarmed
LeftDisarmed ==
    cyc.armedBefore = "DISARMED" /\ flightStatus.Armed # "DISARMED"

\* C30: an iteration that finds more than 5 s since the last detected
\* activity leaves the monitor reset (first group, no baseline, no active
\* group or channel reported), and so does the iteration in which the
\* vehicle leaves Disarmed.  Violated: the task resets the monitor on the
\* age of the last activity only; the iteration that arms the vehicle runs
\* the monitor as any other, and the iterations after it leave the monitor
\* as it is until 5 s have passed.
MonitorResetOnTimeoutAndArming ==
    activity.observed
        => /\ activity.hist.sinceChecked > ACTIVITY_TIMEOUT_MS => MonitorReset
           /\ LeftDisarmed => MonitorReset

-----------------------------------------------------------------------------
(* Specification SpecActivityConfig: the receiver-activity monitor of a    *)
(* vehicle that arms and disarms while the receiver driver comes and goes. *)
(* The sticks are at rest with the throttle low, or no stick has a driver  *)
(* (the iteration leaves through the "continue" of the configuration       *)
(* check); the arming method is rewritten between AlwaysArmed and          *)
(* AlwaysDisarmed; the PWM group is bound and its channels are at rest.    *)

\* an iteration that reads the settings, the monitored group and the sticks
ConfigArmInput ==
    \E a \in ArmingMethods, rx \in {RestFrame, NoDriverFrame} :
        manualControlTask(MonitoredInput(Input([settings EXCEPT !.Arming = a],
                                               rx, NoAlarms, FALSE, TRUE, cmd),
                                         ActivityRead(Still, Still)))

InitActivityConfig ==
    /\ InitTask([BaseSettings EXCEPT !.Arming = "AlwaysDisarmed"])
    /\ call = [fn |-> "none"]
    /\ activity = InitMonitor({0})

NextActivityConfig == ConfigArmInput

SpecActivityConfig == InitActivityConfig /\ [][NextActivityConfig]_vars

\* C31: an iteration that begins with FlightStatus.Armed at Arming or Armed
\* does not run the step of the receiver-activity monitor, whatever
\* iterations came before, those that left through the configuration
\* check included.
MonitorOnlyWhileDisarmed ==
    (activity.observed /\ activity.hist.ran) => cyc.armedBefore = "DISARMED"

\* an armed vehicle loses its receiver driver: the iteration begins Armed,
\* skips the monitor and leaves through the configuration check
MonitorOnlyWhileDisarmedWitness ==
    /\ activity.observed /\ ~activity.hist.ran
    /\ cyc.armedBefore = "ARMED"
    /\ cyc.path = "cfgerr"

-----------------------------------------------------------------------------
(* Specification SpecDesired: updateActuatorDesired and                    *)
(* updateStabilizationDesired as functions of the command, over commands   *)
(* with the throttle on both sides of zero and the stabilization modes of  *)
(* the three axes.                                                         *)

\* StabilizationBank: ManualRate of every axis in deg/s, RollMax, PitchMax
\* and YawMax in deg
ManualRate == 150
AttitudeMax == 55

StabilizationModes ==
    {"None", "Rate", "WeakLeveling", "Attitude", "AxisLock", "VirtualBar",
     "Rattitude", "RelayRate", "RelayAttitude"}

\* the explored values of Roll, Pitch and Yaw, and of Throttle
AxisValues == {-Unit, 0, Unit \div 2}
ThrottleValues == {-Unit, -(Unit \div 2), -1, 0, 1, Unit \div 2, Unit}

\* the explored Stabilization<n>Settings: roll, pitch, yaw; 255 is no mode
\* of the enumeration
StabSettings ==
    {<<"None", "None", "None">>, <<"Rate", "Attitude", "Rattitude">>,
     <<"Attitude", "Rate", "AxisLock">>, <<"Rattitude", "VirtualBar", "RelayAttitude">>,
     <<"WeakLeveling", "RelayRate", "Rate">>, <<"255", "RelayAttitude", "255">>}

\* the throttle without the test for a negative command
DesiredThrottle_Verbatim(throttle) == throttle

\* (cmd->Throttle < 0) ? -1 : cmd->Throttle
DesiredThrottle(throttle) == IF throttle < 0 THEN -Unit ELSE throttle

\* the chain of conditional expressions for one axis
StabilizedAxis(mode, value, rate, max) ==
    CASE mode \in {"None", "VirtualBar", "Rattitude"} -> value
      [] mode \in {"Rate", "WeakLeveling", "AxisLock", "RelayRate"} -> value * rate
      [] mode \in {"Attitude", "RelayAttitude"} -> value * max
      [] OTHER -> 0

\* updateActuatorDesired(cmd) on the ActuatorDesired object desired
updateActuatorDesired(c, desired) ==
    [desired EXCEPT !.Roll = c.Roll, !.Pitch = c.Pitch, !.Yaw = c.Yaw,
                    !.Throttle = DesiredThrottle(c.Throttle)]

\* updateStabilizationDesired(cmd, settings) on the StabilizationDesired
\* object desired, with stab the Stabilization<n>Settings of the flight
\* mode fm
updateStabilizationDesired(c, fm, stab, desired) ==
    IF fm \notin {"Stabilized1", "Stabilized2", "Stabilized3"} THEN desired
    ELSE [desired EXCEPT
             !.Roll = StabilizedAxis(stab[1], c.Roll, ManualRate, AttitudeMax),
             !.Pitch = StabilizedAxis(stab[2], c.Pitch, ManualRate, AttitudeMax),
             !.Yaw = IF stab[3] = "Rattitude" THEN c.Yaw * ManualRate
                     ELSE StabilizedAxis(stab[3], c.Yaw, ManualRate, AttitudeMax),
             !.StabilizationMode =
                 <<stab[1], stab[2], IF stab[3] = "Rattitude" THEN "Rate" ELSE stab[3]>>,
             !.Throttle = DesiredThrottle(c.Throttle)]

\* the dispatch of a command in flight mode Manual
DesiredManual ==
    /\ call.fn = "arguments" /\ call.fm = "Manual"
    /\ call' = [call EXCEPT !.fn = "updateActuatorDesired",
                            !.desired = updateActuatorDesired(call.cmd, @)]
    /\ TaskIdle

\* the dispatch of a command in a stabilized flight mode
DesiredStabilized ==
    /\ call.fn = "arguments" /\ call.fm # "Manual"
    /\ call' = [call EXCEPT !.fn = "updateStabilizationDesired",
                            !.desired = updateStabilizationDesired(call.cmd, call.fm,
                                                                   call.stab, @)]
    /\ TaskIdle

InitDesired ==
    /\ InitTask(BaseSettings)
    /\ activity = NotObserved
    /\ \E r \in AxisValues, p \in AxisValues, y \in AxisValues, t \in ThrottleValues,
          fm \in {"Manual", "Stabilized1", "Stabilized3"}, stab \in StabSettings :
          /\ fm = "Manual" => stab = <<"None", "None", "None">>
          /\ call = [fn |-> "arguments", fm |-> fm, stab |-> stab,
                     cmd |-> [Roll |-> r, Pitch |-> p, Yaw |-> y, Throttle |-> t],
                     desired |-> [Roll |-> 0, Pitch |-> 0, Yaw |-> 0, Throttle |-> -Unit,
                                  StabilizationMode |-> <<"None", "None", "None">>]]

NextDesired == DesiredManual \/ DesiredStabilized

SpecDesired == InitDesired /\ [][NextDesired]_vars

\* C32: updateActuatorDesired writes Roll, Pitch and Yaw of the command
\* unchanged; both updateActuatorDesired and updateStabilizationDesired
\* write a throttle of exactly -1 for a negative commanded throttle and the
\* commanded throttle otherwise, so the throttle written is never strictly
\* between -1 and 0.
DesiredThrottleRule ==
    /\ call.fn = "updateActuatorDesired"
          => /\ call.desired.Roll = call.cmd.Roll
             /\ call.desired.Pitch = call.cmd.Pitch
             /\ call.desired.Yaw = call.cmd.Yaw
    /\ call.fn \in {"updateActuatorDesired", "updateStabilizationDesired"}
          => /\ call.cmd.Throttle < 0 => call.desired.Throttle = -Unit
             /\ call.cmd.Throttle >= 0 => call.desired.Throttle = call.cmd.Throttle
             /\ ~(-Unit < call.desired.Throttle /\ call.desired.Throttle < 0)

\* a stabilized dispatch of a half-negative throttle writes -1, with the
\* roll command scaled by the rate
DesiredThrottleRuleWitness ==
    /\ call.fn = "updateStabilizationDesired"
    /\ call.cmd.Throttle = -(Unit \div 2)
    /\ call.desired.Throttle = -Unit
    /\ call.cmd.Roll = Unit \div 2
    /\ call.desired.Roll = (Unit \div 2) * ManualRate

-----------------------------------------------------------------------------
(* Specification SpecGuidance: the flight-mode switch selects among        *)
(* AltitudeHold, PositionHold and Land; the sticks are at rest, or no      *)
(* stick has a driver and the iteration leaves through the "continue" of   *)
(* the configuration check.  The vehicle stays disarmed.                   *)

GuidanceSettings ==
    [BaseSettings EXCEPT !.Arming = "AlwaysDisarmed",
                         !.FlightModePosition = <<"AltitudeHold", "PositionHold", "Land",
                                                  "Manual", "Manual", "Manual">>]

\* the sticks at rest and the flight-mode switch in one of its positions
GuidanceFrames ==
    {Frame(PulseNeutral, PulseNeutral, PulseNeutral, PulseMin, m, PulseNeutral) :
        m \in {PulseMin, PulseNeutral, PulseMax}}

\* an iteration that reads the receiver
GuidanceReceiver ==
    \E rx \in GuidanceFrames :
        manualControlTask(Input(settings, rx, NoAlarms, FALSE, TRUE, cmd))

\* an iteration that finds no driver
GuidanceNoDriver ==
    manualControlTask(Input(settings, NoDriverFrame, NoAlarms, FALSE, TRUE, cmd))

InitGuidance == InitWith(GuidanceSettings)

NextGuidance == GuidanceReceiver \/ GuidanceNoDriver

SpecGuidance == InitGuidance /\ [][NextGuidance]_vars

\* the iteration called altitudeHoldDesired, updatePathDesired or
\* updateLandDesired
GeneratorTold == cyc.target \in {"AltitudeHoldDesired", "PathDesired"}

\* C33: the mode remembered is the mode of the last iteration that reached
\* the dispatch (an iteration that left through the configuration check
\* leaves it as it was), and an iteration that calls a guidance generator
\* passes changed = true if and only if the mode it dispatches differs from
\* the remembered one.
GuidanceChangedOnModeChange ==
    [][/\ cyc'.dispatchMode # "none" => lastFlightMode' = cyc'.dispatchMode
       /\ cyc'.dispatchMode = "none"
             => (lastFlightMode' = lastFlightMode /\ ~GeneratorTold')
       /\ GeneratorTold' => (cyc'.changed <=> cyc'.dispatchMode # lastFlightMode)]_vars

\* the switch went from PositionHold to Land: updateLandDesired is told
\* that the mode changed
GuidanceChangedOnModeChangeWitness ==
    /\ GeneratorTold /\ cyc.changed
    /\ cyc.flightModeBefore = "PositionHold"
    /\ cyc.dispatchMode = "Land"
    /\ lastFlightMode = "Land"

-----------------------------------------------------------------------------
(* Specification SpecInvalid: samples that are not valid while the         *)
(* receiver still counts as connected.  The arming method is the switch on *)
(* Accessory0; the frames are the switch and throttle positions, a frame   *)
(* whose channels timed out, and a frame with roll beyond its range, the   *)
(* flight-mode switch and the accessory switch at their upper ends.        *)

OutOfRangeFrame ==
    Frame(PulseMax + FarOff, PulseNeutral, PulseNeutral, PulseNeutral, PulseMax, PulseMax)

InvalidSettings == [BaseSettings EXCEPT !.Arming = "Accessory0"]

\* an iteration that reads a frame in range
InvalidReceiverValid ==
    \E rx \in GestureFrames(InvalidSettings) :
        manualControlTask(Input(settings, rx, NoAlarms, FALSE, TRUE, cmd))

\* an iteration that reads a frame that is not valid
InvalidReceiverInvalid ==
    \E rx \in {TimeoutFrame, OutOfRangeFrame} :
        manualControlTask(Input(settings, rx, NoAlarms, FALSE, TRUE, cmd))

InitInvalid == InitWith(InvalidSettings)

NextInvalid == InvalidReceiverValid \/ InvalidReceiverInvalid

SpecInvalid == InitInvalid /\ [][NextInvalid]_vars

\* C35: an iteration whose sample is not valid and that leaves the receiver
\* connected publishes the command (Roll, Pitch, Yaw, Throttle, Collective,
\* switch position), the accessory values and the flight mode of the
\* iteration before, and runs processArm on that command with armSwitch 0.
InvalidSampleHoldsOutputs ==
    [][(cyc'.path = "rcvr" /\ ~cyc'.valid /\ cmd'.Connected)
          => /\ cmd' = cmd
             /\ accessory' = accessory
             /\ flightStatus'.FlightMode = flightStatus.FlightMode
             /\ cyc'.armSwitch = 0
             /\ LET pa == processArm(cmd, settings', 0, alarms', flightStatus.FlightMode,
                                     armState, cyc'.elapsed)
                IN  /\ armState' = pa.armState
                    /\ flightStatus'.Armed = setArmedIfChanged(flightStatus.Armed, pa.Armed)]_vars

\* the arming switch is held in its arming position when a sample times
\* out: the accessory value is kept, and processArm, given a neutral
\* switch, leaves ARMING_MANUAL
InvalidSampleHoldsOutputsWitness ==
    /\ cyc.path = "rcvr" /\ ~cyc.valid /\ cmd.Connected
    /\ cyc.timedout # {}
    /\ accessory["Accessory0"] # 0
    /\ cyc.armStateBefore = "ARMING_MANUAL" /\ armState = "DISARMED"

-----------------------------------------------------------------------------
(* Specification SpecArming: the arming sequence held to its end.  The     *)
(* arming method is the roll-left gesture, with the timeout on or off.     *)
(* The operator makes the gesture or raises the throttle, and the link may *)
(* time out; once the vehicle is disarmed and the receiver connected the   *)
(* operator may start to hold the gesture with the throttle low, and then  *)
(* holds it for good.  No alarm is raised and the flight mode is Manual.   *)
(* The task loop never ends and vTaskDelayUntil returns every period: the  *)
(* iterations are weakly fair.                                             *)

\* roll at the arming gesture, throttle low, flight-mode switch at Manual
ArmingGestureFrame ==
    Frame(PulseMin, PulseNeutral, PulseNeutral, PulseMin, PulseMin, PulseNeutral)

\* before the gesture is held: the gesture, the sticks centred with the
\* throttle raised, a link that timed out
ArmingFreeFrames ==
    {ArmingGestureFrame,
     Frame(PulseNeutral, PulseNeutral, PulseNeutral, PulseNeutral, PulseMin, PulseNeutral),
     TimeoutFrame}

\* an iteration before the operator holds the gesture
ArmingFree ==
    /\ call.fn = "free"
    /\ \E rx \in ArmingFreeFrames :
          manualControlTask(Input(settings, rx, NoAlarms, FALSE, TRUE, cmd))

\* the operator starts to hold the gesture: disarmed and connected
ArmingHoldStarts ==
    /\ call.fn = "free"
    /\ armState = "DISARMED" /\ flightStatus.Armed = "DISARMED" /\ cmd.Connected
    /\ call' = [fn |-> "held"]
    /\ TaskIdle

\* an iteration with the gesture held and the throttle low
ArmingHeld ==
    /\ call.fn = "held"
    /\ manualControlTask(Input(settings, ArmingGestureFrame, NoAlarms, FALSE, TRUE, cmd))

InitArming ==
    /\ \E t \in {ArmedTimeoutMs, 0} :
          InitTask([BaseSettings EXCEPT !.Arming = "RollLeft", !.ArmedTimeout = t])
    /\ activity = NotObserved
    /\ call = [fn |-> "free"]

NextArming == ArmingFree \/ ArmingHoldStarts \/ ArmingHeld

SpecArming == InitArming /\ [][NextArming]_vars /\ WF_vars(NextArming)

GestureHeld == call.fn = "held"

\* C37: from a disarmed vehicle with the receiver connected, with the
\* arming gesture held, the throttle low and the check before arming
\* passed in every iteration, FlightStatus.Armed becomes Arming and then
\* Armed: while the gesture is held Disarmed is followed by Disarmed or
\* Arming only, Arming is reached, and from Arming Armed is reached.
ArmingCompletes ==
    /\ [][(GestureHeld /\ flightStatus.Armed = "DISARMED")
             => flightStatus'.Armed \in {"DISARMED", "ARMING"}]_vars
    /\ (GestureHeld /\ flightStatus.Armed = "DISARMED") ~> (flightStatus.Armed = "ARMING")
    /\ (GestureHeld /\ flightStatus.Armed = "ARMING") ~> (flightStatus.Armed = "ARMED")

\* the gesture was held through the sequence: armState went from
\* ARMING_MANUAL to ARMED and on, and Armed is published after Arming
ArmingCompletesWitness ==
    /\ GestureHeld
    /\ cyc.armedBefore = "ARMING" /\ flightStatus.Armed = "ARMED"
    /\ cyc.armStateBefore = "ARMED"

-----------------------------------------------------------------------------
(* The step of the receiver-activity monitor as a whole, under             *)
(* SpecActivity.                                                           *)

\* the call went through the label group_completed
SearchedNextGroup ==
    /\ activity.observed /\ activity.hist.ran
    /\ ~(/\ activity.hist.fsmBefore.group \in activity.map
         /\ activity.hist.fsmBefore.sample_count = 0)

\* C39: the search for the next bound group makes at most one pass over the
\* groups and leaves the monitor where the loop of the code stops; with no
\* group bound a call leaves the current group as it was and reports no
\* activity; after every call the group is below the number of groups,
\* sample_count is 0 or 1, and sample_count = 1 only with the current
\* group bound and its baseline taken from the reads of this call.
ActivityStepBounded ==
    (activity.observed /\ activity.hist.ran)
        => LET h == activity.hist
               r == FindNextGroup(h.fsmBefore.group, activity.map, 0)
           IN  /\ r.passes <= MANUALCONTROLSETTINGS_CHANNELGROUPS_NONE
               /\ SearchedNextGroup
                     => /\ h.fsmUpdated.group = r.group
                        /\ h.fsmUpdated.sample_count = (IF r.found THEN 1 ELSE 0)
               /\ activity.map = {}
                     => (h.fsmUpdated.group = h.fsmBefore.group /\ ~h.updated)
               /\ h.fsmUpdated.group \in 0 .. (MANUALCONTROLSETTINGS_CHANNELGROUPS_NONE - 1)
               /\ activity.fsm.group \in 0 .. (MANUALCONTROLSETTINGS_CHANNELGROUPS_NONE - 1)
               /\ h.fsmUpdated.sample_count \in {0, 1}
               /\ activity.fsm.sample_count \in {0, 1}
               /\ h.fsmUpdated.sample_count = 1
                     => (h.fsmUpdated.group \in activity.map
                         /\ BaselineTaken(h.fsmUpdated.group))

\* the GCS group alone is bound: the search makes a full pass over the
\* groups and comes back to it
ActivityStepBoundedWitness ==
    /\ SearchedNextGroup
    /\ activity.map = {5}
    /\ activity.hist.fsmBefore.group = 5 /\ activity.hist.fsmBefore.sample_count = 1
    /\ FindNextGroup(5, activity.map, 0).passes = MANUALCONTROLSETTINGS_CHANNELGROUPS_NONE
    /\ activity.hist.fsmUpdated.group = 5
    /\ BaselineTaken(5)

=============================================================================
